---- MODULE Spec2Model ----
(***************************************************************************)
(* Xplore: the session engine of a terminal file browser with an embedded  *)
(* shell.  The module models App (src/ui/app.rs), the Directory Model      *)
(* FileSystemManager (src/filesystem/manager.rs), the List viewport that   *)
(* render_main drives (src/ui/ui.rs) and the environment the session       *)
(* talks to: the filesystem, the shell processes and the PTY input queue.  *)
(***************************************************************************)
EXTENDS Integers, Sequences, FiniteSets, TLC

(***************************************************************************)
(* Bounds of the model.                                                    *)
(***************************************************************************)
\* Longest path (in components) the filesystem holds; a deeper create fails.
MaxDepth == 2
\* Most cd commands waiting unread in the PTY input before the user stops
\* navigating, and most forwarded keys waiting there before the user stops typing.
MaxQueue == 2
MaxTyped == 1
\* Most shell processes spawned over a run (pids 1..MaxPid).
MaxPid == 2
\* Largest height (in rows) of the main area between header and footer.
MaxRows == 4
\* Most changes made to the filesystem from outside the session.
MaxExternal == 1
\* Longest search query / prompt buffer typed.
MaxText == 1
\* the last row of the settings list the user moves the cursor to while
\* remapping (rows 0..2: the actions up, down, enter)
MaxRemapRow == 2
\* chunks of output a reader thread reads from one session
MaxOut == 2
\* the largest n Iterator::take(n) is tried with
MaxTake == 2
MaxProc == 3

(***************************************************************************)
(* Program constants.                                                      *)
(***************************************************************************)
\* tick: "if self.tick_count % 10 == 0" (live view poll)
RefreshEvery == 10
\* tick: "self.tick_count % 5 == 0" (shell discovery and shell -> GUI sync)
SyncEvery == 5

(***************************************************************************)
(* Paths and names.  A name is a sequence of characters, a path the        *)
(* sequence of its components below the filesystem root; every path of the *)
(* model is absolute and canonical (the tree holds no symbolic links).     *)
(***************************************************************************)
NameA == <<"a">>
NameB == <<"B">>
Dot == <<".">>
DotDot == <<".", ".">>
Root == <<>>

\* Path::parent: None at the root
HasParent(p) == Len(p) > 0
Parent(p) == SubSeq(p, 1, Len(p) - 1)
\* Path::file_name: None at the root
HasFileName(p) == Len(p) > 0
FileName(p) == p[Len(p)]
\* Path::join with a single component
Join(p, nm) == Append(p, nm)
\* p is q or an ancestor of q
IsPrefix(p, q) == Len(p) <= Len(q) /\ SubSeq(q, 1, Len(p)) = p

\* char::to_lowercase over the model's alphabet
LowerChar(c) ==
  IF c = "A" THEN "a" ELSE IF c = "B" THEN "b"
  ELSE IF c = "S" THEN "s" ELSE IF c = "H" THEN "h" ELSE c
\* str::to_lowercase
ToLower(s) == [i \in 1..Len(s) |-> LowerChar(s[i])]
\* str::contains
Contains(hay, needle) ==
  \E i \in 0..(Len(hay) - Len(needle)) : SubSeq(hay, i + 1, i + Len(needle)) = needle

\* s < t in the lexicographic order of the characters' code points
CharRank(c) == CASE c = "." -> 0 [] c = "/" -> 1 [] c = "B" -> 2 [] c = "a" -> 3 [] c = "b" -> 4 [] OTHER -> 5
RECURSIVE StrLess(_, _)
StrLess(s, t) ==
  IF Len(t) = 0 THEN FALSE
  ELSE IF Len(s) = 0 THEN TRUE
  ELSE IF CharRank(s[1]) # CharRank(t[1]) THEN CharRank(s[1]) < CharRank(t[1])
  ELSE StrLess(Tail(s), Tail(t))

NoDesc == <<"~none">>

(***************************************************************************)
(* The filesystem: a function from the paths that exist to                 *)
(* [kind: "dir" | "file", desc: the description attribute or NoDesc,       *)
(*  data: the content of a file (0: empty)].  An entry of kind             *)
(* "unreadable" is one whose metadata cannot be read.                      *)
(***************************************************************************)
Node(kind, desc, data) == [kind |-> kind, desc |-> desc, data |-> data]
NewDir == Node("dir", NoDesc, 0)

Exists(f, p) == p \in DOMAIN f
\* Path::is_dir
IsDir(f, p) == p \in DOMAIN f /\ f[p].kind = "dir"
IsFile(f, p) == p \in DOMAIN f /\ f[p].kind = "file"
Children(f, d) == {p \in DOMAIN f : Len(p) = Len(d) + 1 /\ Parent(p) = d}
Subtree(f, p) == {q \in DOMAIN f : IsPrefix(p, q)}
\* the number of components of the longest path the filesystem accepts; it
\* is fixed for a run
VARIABLE path_max
\* a path the OS accepts: longer ones fail (ENAMETOOLONG)
PathOkLonger(p) == Len(p) <= path_max + 1
PathOk(p) == Len(p) <= path_max

Restrict(f, S) == [q \in S |-> f[q]]
Put(f, p, node) == [q \in DOMAIN f \cup {p} |-> IF q = p THEN node ELSE f[q]]

\* the order in which read_dir hands out the entries of one directory
RECURSIVE SetToSeq(_)
SetToSeq(S) ==
  IF S = {} THEN <<>>
  ELSE LET x == CHOOSE y \in S : \A z \in S : z = y \/ StrLess(FileName(y), FileName(z))
                                                  \/ ~StrLess(FileName(z), FileName(y))
       IN  <<x>> \o SetToSeq(S \ {x})
ReadDir(f, d) == SetToSeq(Children(f, d))

\* std::fs::create_dir_all
CreateDirAll(f, p) ==
  IF ~PathOk(p) THEN [ok |-> FALSE, fs |-> f]
  ELSE IF \E i \in 0..Len(p) : IsFile(f, SubSeq(p, 1, i)) THEN [ok |-> FALSE, fs |-> f]
  ELSE [ok |-> TRUE,
        fs |-> [q \in DOMAIN f \cup {SubSeq(p, 1, i) : i \in 0..Len(p)} |->
                  IF q \in DOMAIN f THEN f[q] ELSE NewDir]]

\* FileSystemManager::create_dir
CreateDir(f, p) == CreateDirAll(f, p)

\* FileSystemManager::delete_recursive: remove_dir_all of a directory,
\* remove_file otherwise.  The root itself cannot be removed.
DeleteRecursive(f, p) ==
  IF IsDir(f, p)
  THEN IF p = Root THEN [ok |-> FALSE, fs |-> Restrict(f, {Root})]
       ELSE [ok |-> TRUE, fs |-> Restrict(f, DOMAIN f \ Subtree(f, p))]
  ELSE IF Exists(f, p) THEN [ok |-> TRUE, fs |-> Restrict(f, DOMAIN f \ {p})]
  ELSE [ok |-> FALSE, fs |-> f]

\* std::fs::copy: the destination is opened with truncate, so a copy of a
\* file onto itself leaves it empty; attributes are not copied.
CopyFile(f, src, dst) ==
  IF ~IsFile(f, src) \/ ~PathOk(dst) \/ ~HasParent(dst) THEN [ok |-> FALSE, fs |-> f]
  ELSE IF ~IsDir(f, Parent(dst)) \/ IsDir(f, dst) THEN [ok |-> FALSE, fs |-> f]
  ELSE [ok |-> TRUE,
        fs |-> Put(f, dst, Node("file",
                                IF Exists(f, dst) THEN f[dst].desc ELSE NoDesc,
                                IF src = dst THEN 0 ELSE f[src].data))]

\* FileSystemManager::copy_recursive: the first failure aborts
RECURSIVE CopyRecursive(_, _, _)
RECURSIVE CopyChildren(_, _, _, _)
CopyRecursive(f, src, dst) ==
  IF IsDir(f, src)
  THEN LET made == CreateDirAll(f, dst)
       IN  IF ~made.ok THEN [ok |-> FALSE, fs |-> made.fs]
           ELSE CopyChildren(made.fs, src, dst, ReadDir(made.fs, src))
  ELSE CopyFile(f, src, dst)
CopyChildren(f, src, dst, kids) ==
  IF kids = <<>> THEN [ok |-> TRUE, fs |-> f]
  ELSE LET nm == FileName(Head(kids))
           one == CopyRecursive(f, Join(src, nm), Join(dst, nm))
       IN  IF ~one.ok THEN one ELSE CopyChildren(one.fs, src, dst, Tail(kids))

\* std::fs::rename(src, dst) within one filesystem
RenameOk(f, src, dst) ==
  /\ Exists(f, src) /\ src # Root /\ PathOk(dst) /\ HasParent(dst)
  /\ IsDir(f, Parent(dst))
  /\ src = dst \/ ~IsPrefix(src, dst)
  /\ Exists(f, dst) /\ dst # src =>
       /\ f[dst].kind = f[src].kind
       /\ f[dst].kind = "dir" => Children(f, dst) = {}
Renamed(f, src, dst) ==
  IF src = dst THEN f
  ELSE LET moved == Subtree(f, src)
           to(q) == dst \o SubSeq(q, Len(src) + 1, Len(q))
           keep == (DOMAIN f \ moved) \ {dst}
       IN  [q \in keep \cup {to(m) : m \in moved} |->
              IF q \in keep THEN f[q]
              ELSE f[CHOOSE m \in moved : to(m) = q]]

\* xattr::set(path, key, value): fails on a path that does not exist
SetAttr(f, p, d) ==
  IF Exists(f, p) THEN [ok |-> TRUE, fs |-> [f EXCEPT ![p].desc = d]]
  ELSE [ok |-> FALSE, fs |-> f]

\* FileSystemManager::move_entry.  crossDevice: the rename fails although
\* its arguments are fine (source and destination on two filesystems).
MoveEntry(f, src, dst, crossDevice) ==
  LET attr == IF Exists(f, src) THEN f[src].desc ELSE NoDesc
      reapply(g) == IF attr # NoDesc THEN SetAttr(g, dst, attr).fs ELSE g
  IN  IF crossDevice \/ ~RenameOk(f, src, dst)
      THEN LET c == CopyRecursive(f, src, dst)
           IN  IF ~c.ok THEN [ok |-> FALSE, fs |-> c.fs]
               ELSE LET d == DeleteRecursive(reapply(c.fs), src)
                    IN  [ok |-> d.ok, fs |-> d.fs]
      ELSE [ok |-> TRUE, fs |-> reapply(Renamed(f, src, dst))]

(***************************************************************************)
(* FileEntry and the listing.                                              *)
(***************************************************************************)
FileEntry(name, path, is_dir, desc) ==
  [name |-> name, path |-> path, is_dir |-> is_dir, description |-> desc]

\* str::as_bytes: the UTF-8 encoding of a text, a byte written as the
\* character it encodes or, for the two bytes of "é", as its hexadecimal form
RECURSIVE AsBytes(_)
AsBytes(text) ==
  IF text = <<>> THEN <<>>
  ELSE (IF Head(text) = "é" THEN <<"C3", "A9">> ELSE <<Head(text)>>)
         \o AsBytes(Tail(text))

\* String::from_utf8(data).ok(): NoDesc when the bytes are not UTF-8
RECURSIVE FromUtf8(_)
FromUtf8(data) ==
  IF data = <<>> THEN <<>>
  ELSE IF Head(data) = "C3"
  THEN (IF Len(data) >= 2 /\ data[2] = "A9" /\ FromUtf8(SubSeq(data, 3, Len(data))) # NoDesc
        THEN <<"é">> \o FromUtf8(SubSeq(data, 3, Len(data)))
        ELSE NoDesc)
  ELSE IF Head(data) = "A9" \/ FromUtf8(Tail(data)) = NoDesc THEN NoDesc
  ELSE <<Head(data)>> \o FromUtf8(Tail(data))

\* metadata::get_description
GetDescription(f, p) ==
  IF Exists(f, p) /\ f[p].desc # NoDesc THEN FromUtf8(f[p].desc) ELSE NoDesc

\* metadata::set_description
SetDescriptionKeepsFirst(f, p, text) ==
  IF Exists(f, p) /\ f[p].desc # NoDesc THEN [ok |-> TRUE, fs |-> f]
  ELSE SetAttr(f, p, AsBytes(text))
SetDescription(f, p, text) == SetAttr(f, p, AsBytes(text))

EntryBeforeFilesFirst(a, b) ==
  IF a.name = Dot THEN TRUE
  ELSE IF b.name = Dot THEN FALSE
  ELSE IF a.name = DotDot THEN TRUE
  ELSE IF b.name = DotDot THEN FALSE
  ELSE IF a.is_dir = b.is_dir THEN StrLess(ToLower(a.name), ToLower(b.name))
  ELSE b.is_dir

\* the comparator of list_directory's sort_by: TRUE when a orders before b
EntryBefore(a, b) ==
  IF a.name = Dot THEN TRUE
  ELSE IF b.name = Dot THEN FALSE
  ELSE IF a.name = DotDot THEN TRUE
  ELSE IF b.name = DotDot THEN FALSE
  ELSE IF a.is_dir = b.is_dir THEN StrLess(ToLower(a.name), ToLower(b.name))
  ELSE a.is_dir

\* a stable sort: x goes behind every element that does not order after it
RECURSIVE InsertSorted(_, _)
InsertSorted(sorted, x) ==
  IF sorted = <<>> THEN <<x>>
  ELSE IF EntryBefore(x, Head(sorted)) THEN <<x>> \o sorted
  ELSE <<Head(sorted)>> \o InsertSorted(Tail(sorted), x)
RECURSIVE SortEntries(_)
SortEntries(es) ==
  IF es = <<>> THEN <<>>
  ELSE InsertSorted(SortEntries(SubSeq(es, 1, Len(es) - 1)), es[Len(es)])

\* DirEntry::metadata succeeds
Readable(f, p) == Exists(f, p) /\ f[p].kind # "unreadable"

\* FileSystemManager::list_directory: Err when the directory cannot be read,
\* and ("let metadata = entry.metadata()?") when the metadata of one of its
\* entries cannot
ListDirectory(f, dir) ==
  IF ~IsDir(f, dir) THEN [ok |-> FALSE, entries |-> <<>>]
  ELSE IF \E p \in Children(f, dir) : ~Readable(f, p)
  THEN [ok |-> FALSE, entries |-> <<>>]
  ELSE LET dot == <<FileEntry(Dot, dir, TRUE, NoDesc)>>
           dotdot == IF HasParent(dir)
                     THEN <<FileEntry(DotDot, Parent(dir), TRUE, NoDesc)>>
                     ELSE <<>>
           kids == ReadDir(f, dir)
           real == [i \in 1..Len(kids) |->
                      FileEntry(FileName(kids[i]), kids[i], IsDir(f, kids[i]),
                                GetDescription(f, kids[i]))]
       IN  [ok |-> TRUE, entries |-> SortEntries(dot \o dotdot \o real)]

\* the walk of walkdir::WalkDir::new(root): the root, then each subtree
RECURSIVE Walk(_, _)
RECURSIVE WalkAll(_, _)
Walk(f, p) == <<p>> \o (IF IsDir(f, p) THEN WalkAll(f, ReadDir(f, p)) ELSE <<>>)
WalkAll(f, ps) == IF ps = <<>> THEN <<>> ELSE Walk(f, Head(ps)) \o WalkAll(f, Tail(ps))

\* search_recursive: ".take(1000)"
SearchCap == 1000
WalkName(p) == IF HasFileName(p) THEN FileName(p) ELSE <<"/">>
Matches(name, desc, q) ==
  Contains(ToLower(name), q) \/ (desc # NoDesc /\ Contains(ToLower(desc), q))
\* Iterator::take(n)
Take(seq, n) == SubSeq(seq, 1, IF Len(seq) < n THEN Len(seq) ELSE n)
\* search_recursive: the entries of the walk that pass the two filter_maps
SearchHits(f, root, query) ==
  LET q == ToLower(query)
      hit(p) == Matches(WalkName(p), GetDescription(f, p), q) /\ Readable(f, p)
  IN  SelectSeq(Walk(f, root), hit)
SearchRecursiveUnfiltered(f, root, query) ==
  LET cut == Take(Walk(f, root), SearchCap)
  IN  [i \in 1..Len(cut) |->
         FileEntry(WalkName(cut[i]), cut[i], IsDir(f, cut[i]), GetDescription(f, cut[i]))]
\* FileSystemManager::search_recursive
SearchRecursive(f, root, query) ==
  LET cut == Take(SearchHits(f, root, query), SearchCap)
  IN  [i \in 1..Len(cut) |->
         FileEntry(WalkName(cut[i]), cut[i], IsDir(f, cut[i]), GetDescription(f, cut[i]))]


(***************************************************************************)
(* Key events and the keybinding configuration (src/config.rs).            *)
(* A key event is [kind, arg, ctrl, alt, shift]: kind is the KeyCode       *)
(* variant, arg the character of Char(c) or the number of F(n).            *)
(***************************************************************************)
Key(kind, arg, ctrl, alt, shift) ==
  [kind |-> kind, arg |-> arg, ctrl |-> ctrl, alt |-> alt, shift |-> shift]
Plain(kind) == Key(kind, "", FALSE, FALSE, FALSE)
Char(c) == Key("Char", c, FALSE, FALSE, FALSE)
Ctrl(c) == Key("Char", c, TRUE, FALSE, FALSE)

\* key_event_to_string: the code part
CodeStr(k) ==
  CASE k.kind = "Char" -> (IF k.arg = " " THEN "space" ELSE LowerChar(k.arg))
    [] k.kind = "Enter" -> "enter"
    [] k.kind = "Backspace" -> "backspace"
    [] k.kind = "Up" -> "up"
    [] k.kind = "Down" -> "down"
    [] k.kind = "Left" -> "left"
    [] k.kind = "Right" -> "right"
    [] k.kind = "F" -> "f" \o k.arg
    [] k.kind = "Esc" -> "esc"
    [] k.kind = "Delete" -> "delete"
    [] k.kind = "Home" -> "home"
    [] k.kind = "End" -> "end"
    [] k.kind = "PageUp" -> "pageup"
    [] k.kind = "PageDown" -> "pagedown"
    [] OTHER -> ""

\* config::key_event_to_string
KeyEventToString(k) ==
  IF CodeStr(k) = "" THEN ""
  ELSE (IF k.ctrl THEN "ctrl+" ELSE "") \o (IF k.alt THEN "alt+" ELSE "")
       \o (IF k.shift THEN "shift+" ELSE "") \o CodeStr(k)

\* Config::get_actions: the flat list the Config cursor and set_key range over
Actions ==
  << "up", "down", "enter", "backspace", "help", "quit", "settings",
     "home", "end", "ctrl_home", "ctrl_end", "page_up", "page_down",
     "select_all", "deselect_all",
     "select", "copy", "cut", "paste", "new_folder", "delete", "edit",
     "search" >>

\* Config::get_categorized_actions: the categories render_config lists
CategorizedActions ==
  << <<"Navigation",
       << "up", "down", "enter", "backspace", "help", "quit", "settings" >> >>,
     <<"Advanced Navigation",
       << "home", "end", "ctrl_home", "ctrl_end", "page_up", "page_down" >> >>,
     <<"File Operations",
       << "select", "select_all", "deselect_all", "copy", "cut", "paste",
          "new_folder", "delete", "edit" >> >>,
     <<"Search", << "search" >> >> >>

\* render_config: the action rows in the order flat_index counts them
RECURSIVE FlatRows(_)
FlatRows(cats) ==
  IF cats = <<>> THEN <<>> ELSE Head(cats)[2] \o FlatRows(Tail(cats))
\* render_config: the action of the row drawn highlighted (flat_index ==
\* config_index), "" when no row is
Highlighted(index) ==
  IF index < Len(FlatRows(CategorizedActions))
  THEN FlatRows(CategorizedActions)[index + 1] ELSE ""

\* The two bindings App::on_key reads first.  config.rs of this tree does
\* not declare them; they are keys no default binding uses.
ToggleTerminalKey == "ctrl+t"
TerminalPrefixKey == "ctrl+b"

\* impl Default for Config
DefaultKeybindings ==
  [ quit |-> "q", edit |-> "e", up |-> "k", down |-> "j", enter |-> "enter",
    backspace |-> "backspace", settings |-> "s", search |-> "f3",
    select |-> "space", copy |-> "ctrl+c", cut |-> "ctrl+x", paste |-> "ctrl+v",
    new_folder |-> "ctrl+n", delete |-> "shift+delete", help |-> "f1",
    home |-> "home", end |-> "end", ctrl_home |-> "ctrl+home",
    ctrl_end |-> "ctrl+end", page_up |-> "pageup", page_down |-> "pagedown",
    select_all |-> "ctrl+a", deselect_all |-> "ctrl+d",
    toggle_terminal |-> ToggleTerminalKey, terminal_prefix |-> TerminalPrefixKey ]

\* Config::get_actions as (action, key) pairs
GetActions(kb) == [i \in 1..Len(Actions) |-> <<Actions[i], kb[Actions[i]]>>]

\* Config::is_key_taken
IsKeyTaken(kb, key, exclude_action) ==
  \E i \in 1..Len(Actions) : Actions[i] # exclude_action /\ kb[Actions[i]] = key

SetKeyUnchecked(kb, action, key) ==
  [ok |-> TRUE, err |-> "", kb |-> [kb EXCEPT ![action] = key]]

\* Config::set_key
SetKey(kb, action, key) ==
  IF IsKeyTaken(kb, key, action)
  THEN [ok |-> FALSE, err |-> "Key already assigned to another action", kb |-> kb]
  ELSE IF \E i \in 1..Len(Actions) : Actions[i] = action
  THEN [ok |-> TRUE, err |-> "", kb |-> [kb EXCEPT ![action] = key]]
  ELSE [ok |-> FALSE, err |-> "Invalid action", kb |-> kb]

(***************************************************************************)
(* Input modes.                                                            *)
(***************************************************************************)
Mode(tag, arg) == [tag |-> tag, arg |-> arg]
Normal == Mode("Normal", "")
Editing == Mode("Editing", "")
Search == Mode("Search", "")
ConfigMode == Mode("Config", "")
Remapping(action) == Mode("Remapping", action)
PromptNewFolder == Mode("Prompt", "NewFolder")
PromptDelete == Mode("Prompt", "DeleteConfirmation")
Help == Mode("Help", "")

NoError == ""
NoClipboard == [mode |-> "None", paths |-> {}]
Clipboard(paths, mode) == [mode |-> mode, paths |-> paths]

(***************************************************************************)
(* The PTY input.  One chunk is what one write_all hands to the PTY.       *)
(***************************************************************************)
\* PathBuf::to_string_lossy of an absolute path
RECURSIVE PathStr(_)
PathStr(p) ==
  IF p = Root THEN <<"/">>
  ELSE IF Len(p) = 1 THEN <<"/">> \o p[1]
  ELSE PathStr(Parent(p)) \o <<"/">> \o FileName(p)

\* the order in which a HashSet<PathBuf> hands out its paths (one fixed order)
RECURSIVE OrderPaths(_)
OrderPaths(S) ==
  IF S = {} THEN <<>>
  ELSE LET x == CHOOSE y \in S : \A z \in S : z = y \/ ~StrLess(PathStr(z), PathStr(y))
       IN  <<x>> \o OrderPaths(S \ {x})

\* format!("cd '{}'\r", path_str)
CdCommand(p) == <<"c", "d", " ", "'">> \o PathStr(p) \o <<"'", "\r">>

\* what the shell makes of a chunk: the path of a well-formed cd '<path>'\r
\* (no quote inside the quotes), or nothing
IsCdChunk(c) ==
  /\ Len(c) >= 7
  /\ SubSeq(c, 1, 4) = <<"c", "d", " ", "'">>
  /\ SubSeq(c, Len(c) - 1, Len(c)) = <<"'", "\r">>
  /\ c[5] = "/"
CdArg(c) == SubSeq(c, 5, Len(c) - 2)
\* the absolute path a string names: components between the slashes
RECURSIVE ParsePath(_, _, _)
ParsePath(str, sofar, cur) ==
  IF str = <<>> THEN (IF cur = <<>> THEN sofar ELSE Append(sofar, cur))
  ELSE IF Head(str) = "/"
  THEN ParsePath(Tail(str), IF cur = <<>> THEN sofar ELSE Append(sofar, cur), <<>>)
  ELSE ParsePath(Tail(str), sofar, Append(cur, Head(str)))

VARIABLES
  \* ---- environment
  fs,               \* the filesystem: path -> node
  procs,            \* live shell processes below this process: pid -> [cwd, gone]
  child,            \* pid of the shell the held PTY session spawned (0: none)
  nextPid,          \* next pid the OS hands out
  ptyIn,            \* chunks written to the held PTY, not yet read by its shell
  external,         \* changes made to the filesystem from outside so far
  panicked,         \* the process died in an expect()
  main_rows,        \* rows of the terminal between header and footer
  pc,               \* run_app's position: "draw", "tick", "poll" or "done"
  \* ---- FileSystemManager
  current_dir,
  \* ---- App
  all_entries, filtered_entries, selected_index, input_mode, edit_buffer,
  search_query, keybindings, config_index, error_message, is_searching,
  selected_paths, clipboard, prompt_buffer, list_state, list_height,
  prompt_index, is_terminal_open, terminal_focused, pty_pair, pty_parser,
  pty_writer, pty_reader_rx, shell_id, last_synced_path, tick_count,
  \* ---- the output side of the PTY sessions: live (the sessions whose reader
  \* thread is alive), log (session -> the chunks its reader thread has read),
  \* channel (the chunks sent to the held receiver and not yet received),
  \* fed (the chunks the held vt100 parser has processed)
  out,
  \* ---- the process table as find_shell_pid reads it: snap (pid -> parent
  \* pid and name), readable (read_dir("/proc") succeeds), root (the pid it
  \* searches below), found (what the last search returned; 0: None, -1: no
  \* search yet)
  table,
  \* ---- observations of the run (not program state)
  obs

vars ==
  << main_rows, path_max, pc, fs, procs, child, nextPid, ptyIn, external, panicked, current_dir,
     all_entries, filtered_entries, selected_index, input_mode, edit_buffer,
     search_query, keybindings, config_index, error_message, is_searching,
     selected_paths, clipboard, prompt_buffer, list_state, list_height,
     prompt_index, is_terminal_open, terminal_focused, pty_pair, pty_parser,
     pty_writer, pty_reader_rx, shell_id, last_synced_path, tick_count, out,
     table, obs >>

\* The state as one record, so that a method taking &mut self is an operator
\* from the state before to the state after.
St ==
  [ fs |-> fs, procs |-> procs, child |-> child, nextPid |-> nextPid,
    ptyIn |-> ptyIn, external |-> external, panicked |-> panicked,
    current_dir |-> current_dir, all_entries |-> all_entries,
    filtered_entries |-> filtered_entries, selected_index |-> selected_index,
    input_mode |-> input_mode, edit_buffer |-> edit_buffer,
    search_query |-> search_query, keybindings |-> keybindings,
    config_index |-> config_index, error_message |-> error_message,
    is_searching |-> is_searching, selected_paths |-> selected_paths,
    clipboard |-> clipboard, prompt_buffer |-> prompt_buffer,
    list_state |-> list_state, list_height |-> list_height,
    prompt_index |-> prompt_index, is_terminal_open |-> is_terminal_open,
    terminal_focused |-> terminal_focused, pty_pair |-> pty_pair,
    pty_parser |-> pty_parser, pty_writer |-> pty_writer,
    pty_reader_rx |-> pty_reader_rx, shell_id |-> shell_id,
    last_synced_path |-> last_synced_path, tick_count |-> tick_count,
    out |-> out, table |-> table, obs |-> obs ]

\* a process whose working directory was removed reads as "<path> (deleted)"
MarkGone(ps, f) ==
  [pid \in DOMAIN ps |-> [ps[pid] EXCEPT !.gone = @ \/ ~IsDir(f, ps[pid].cwd)]]

Commit(r) ==
  /\ fs' = r.fs
  /\ procs' = MarkGone(r.procs, r.fs)
  /\ child' = r.child
  /\ nextPid' = r.nextPid
  /\ ptyIn' = r.ptyIn
  /\ external' = r.external
  /\ panicked' = r.panicked
  /\ current_dir' = r.current_dir
  /\ all_entries' = r.all_entries
  /\ filtered_entries' = r.filtered_entries
  /\ selected_index' = r.selected_index
  /\ input_mode' = r.input_mode
  /\ edit_buffer' = r.edit_buffer
  /\ search_query' = r.search_query
  /\ keybindings' = r.keybindings
  /\ config_index' = r.config_index
  /\ error_message' = r.error_message
  /\ is_searching' = r.is_searching
  /\ selected_paths' = r.selected_paths
  /\ clipboard' = r.clipboard
  /\ prompt_buffer' = r.prompt_buffer
  /\ list_state' = r.list_state
  /\ list_height' = r.list_height
  /\ prompt_index' = r.prompt_index
  /\ is_terminal_open' = r.is_terminal_open
  /\ terminal_focused' = r.terminal_focused
  /\ pty_pair' = r.pty_pair
  /\ pty_parser' = r.pty_parser
  /\ pty_writer' = r.pty_writer
  /\ pty_reader_rx' = r.pty_reader_rx
  /\ shell_id' = r.shell_id
  /\ last_synced_path' = r.last_synced_path
  /\ tick_count' = r.tick_count
  /\ out' = r.out
  /\ table' = r.table
  /\ obs' = r.obs

(***************************************************************************)
(* Observations.  deleted: the paths the                                   *)
(* last step handed to delete_recursive; failed: whether a create_dir, a   *)
(* copy, a move or a delete of the last step returned an error; pasted: the (source, destination, *)
(* mode) triples the last step handed to copy_recursive or move_entry;     *)
(* captured: the selection shown when the delete prompt was opened;        *)
(* nav: the directory the user last navigated to while a session was held, *)
(* and whether a shell process has changed since; echo: 0, or the number   *)
(* of ticks (capped at 2) since a shell -> GUI navigation that neither the *)
(* user nor a shell has disturbed.                                         *)
(***************************************************************************)
NoPath == << <<"~">> >>
\* drain: while the "Read from PTY" loop of a tick is running, the number of
\* chunks the channel held when the loop began and the number of chunks the
\* loop has received since (begun is -1 outside the loop)
NoDrain == [begun |-> -1, fed |-> 0]
Obs0 ==
  [ deleted |-> {}, pasted |-> {}, failed |-> FALSE, captured |-> {},
    drain |-> NoDrain,
    nav |-> [dir |-> NoPath, clean |-> FALSE], echo |-> 0 ]
\* every step starts with nothing deleted and nothing pasted
Begin(s) ==
  [s EXCEPT !.obs.deleted = {}, !.obs.pasted = {}, !.obs.failed = FALSE]
\* a shell process was spawned, changed directory or exited
ShellsChanged(o) == [o EXCEPT !.nav.clean = FALSE, !.echo = 0]
\* the user navigated the browser to dir
UserNavigated(s, dir) ==
  [s EXCEPT !.obs.echo = 0,
            !.obs.nav = IF s.pty_pair THEN [dir |-> dir, clean |-> TRUE] ELSE @]

(***************************************************************************)
(* App: listing, filter, navigation.                                       *)
(***************************************************************************)
\* ListState::select(Some(i))
ListSelect(ls, i) == [ls EXCEPT !.selected = i]

\* the clamp at the end of App::apply_filter
ClampSelected(idx, len) ==
  IF idx >= len /\ len > 0 THEN len - 1
  ELSE IF len = 0 THEN 0
  ELSE idx

ApplyFilterNamesOnly(s) ==
  LET q == ToLower(s.search_query)
      keep(e) == Contains(ToLower(e.name), q)
      filtered == IF s.search_query = <<>> THEN s.all_entries
                  ELSE SelectSeq(s.all_entries, keep)
      idx == ClampSelected(s.selected_index, Len(filtered))
  IN  [s EXCEPT !.filtered_entries = filtered,
                !.selected_index = idx,
                !.list_state = ListSelect(@, idx)]

\* App::apply_filter
ApplyFilter(s) ==
  LET q == ToLower(s.search_query)
      keep(e) == Matches(e.name, e.description, q)
      filtered == IF s.search_query = <<>> THEN s.all_entries
                  ELSE SelectSeq(s.all_entries, keep)
      idx == ClampSelected(s.selected_index, Len(filtered))
  IN  [s EXCEPT !.filtered_entries = filtered,
                !.selected_index = idx,
                !.list_state = ListSelect(@, idx)]

\* App::refresh: a listing that fails is the empty listing
Refresh(s) ==
  ApplyFilter([s EXCEPT !.all_entries = ListDirectory(s.fs, s.current_dir).entries])

\* FileSystemManager::navigate_to, of an absolute canonical path
NavigateToUnchecked(s, path) ==
  [ok |-> TRUE, s |-> [s EXCEPT !.current_dir = path]]
NavigateTo(s, path) ==
  IF IsDir(s.fs, path) THEN [ok |-> TRUE, s |-> [s EXCEPT !.current_dir = path]]
  ELSE [ok |-> FALSE, s |-> s]

\* FileSystemManager::navigate_up
NavigateUp(s) ==
  IF HasParent(s.current_dir)
  THEN [ok |-> TRUE, s |-> [s EXCEPT !.current_dir = Parent(s.current_dir)]]
  ELSE [ok |-> FALSE, s |-> s]

\* filtered_entries.get(selected_index)
HasCursorEntry(s) == s.selected_index < Len(s.filtered_entries)
CursorEntry(s) == s.filtered_entries[s.selected_index + 1]
Synthetic(e) == e.name = DotDot \/ e.name = Dot

(***************************************************************************)
(* App::tick, step by step.                                                *)
(***************************************************************************)
\* tick_count (u64) is read only through % 10 and % 5; 5 divides 10, so the
\* model keeps it modulo 10
TickWrap == RefreshEvery

\* "2. Sync Files -> Terminal".  Two faulty variants come first: one that
\* moves the marker without writing the cd, one that does nothing at all.
GuiToShellSilent(s) ==
  IF s.current_dir # s.last_synced_path
  THEN [s EXCEPT !.last_synced_path = s.current_dir]
  ELSE s
GuiToShellSkipped(s) == s
GuiToShell(s) ==
  IF s.current_dir # s.last_synced_path
  THEN [s EXCEPT !.ptyIn = IF s.pty_writer THEN Append(@, CdCommand(s.current_dir)) ELSE @,
                 !.last_synced_path = s.current_dir]
  ELSE s

\* str::ends_with
EndsWith(s, suffix) ==
  Len(s) >= Len(suffix) /\ SubSeq(s, Len(s) - Len(suffix) + 1, Len(s)) = suffix

\* find_shell_pid: "Check if this child is a shell"
IsShellNameContains(name) ==
  LET n == ToLower(name)
  IN  Contains(n, <<"s", "h">>) \/ n = <<"f", "i", "s", "h">> \/ n = <<"n", "u">>
IsShellName(name) ==
  LET n == ToLower(name)
  IN  EndsWith(n, <<"s", "h">>) \/ n = <<"f", "i", "s", "h">> \/ n = <<"n", "u">>

\* find_shell_pid, "2. Build Adjacency List": the children of pid, in the
\* order in which the HashMap process_map hands out its keys
ChildrenOf(snap, order, pid) ==
  SelectSeq(order, LAMBDA q : q \in DOMAIN snap /\ snap[q].ppid = pid)

\* find_shell_pid, "3. BFS": the loop over the children of one pid
RECURSIVE ScanChildren(_, _, _, _)
ScanChildren(snap, kids, queue, visited) ==
  IF kids = <<>> THEN [found |-> 0, queue |-> queue, visited |-> visited]
  ELSE IF Head(kids) \in visited THEN ScanChildren(snap, Tail(kids), queue, visited)
  ELSE IF IsShellName(snap[Head(kids)].name)
  THEN [found |-> Head(kids), queue |-> queue, visited |-> visited \cup {Head(kids)}]
  ELSE ScanChildren(snap, Tail(kids), Append(queue, Head(kids)),
                    visited \cup {Head(kids)})

\* find_shell_pid, "3. BFS": the loop over the queue
RECURSIVE Bfs(_, _, _, _)
Bfs(snap, order, queue, visited) ==
  IF queue = <<>> THEN 0
  ELSE LET r == ScanChildren(snap, ChildrenOf(snap, order, Head(queue)),
                             Tail(queue), visited)
       IN  IF r.found # 0 THEN r.found ELSE Bfs(snap, order, r.queue, r.visited)

\* find_shell_pid(parent_pid) over the snapshot tb; 0: None
FindShellPid(tb, order) ==
  IF ~tb.readable THEN 0
  ELSE Bfs(tb.snap, order, <<tb.root>>, {tb.root})

\* "3. Sync Terminal -> Files": discovery.  found is what find_shell_pid
\* returns (0: None).
DiscoverEveryTick(s, found) ==
  IF s.shell_id = 0 /\ found # 0 THEN [s EXCEPT !.shell_id = found] ELSE s
Discover(s, found) ==
  IF s.shell_id = 0 /\ s.tick_count % SyncEvery = 0 /\ found # 0
  THEN [s EXCEPT !.shell_id = found]
  ELSE s

\* std::fs::read_link("/proc/<pid>/cwd")
ReadCwd(s, pid) ==
  IF pid \in DOMAIN s.procs
  THEN [ok |-> TRUE, target |-> s.procs[pid].cwd, dir |-> ~s.procs[pid].gone]
  ELSE [ok |-> FALSE, target |-> NoPath, dir |-> FALSE]

\* "3. Sync Terminal -> Files": the sync.  current is the directory read
\* before the GUI -> shell step.  The faulty variant that comes first
\* navigates without moving the marker.
ShellToGuiNoMarker(s, current) ==
  IF s.shell_id > 0 /\ s.tick_count % SyncEvery = 0
  THEN LET r == ReadCwd(s, s.shell_id)
       IN  IF ~r.ok THEN [s EXCEPT !.shell_id = 0]
           ELSE IF r.target # current /\ r.dir /\ NavigateTo(s, r.target).ok
           THEN Refresh([NavigateTo(s, r.target).s EXCEPT !.obs.echo = 1])
           ELSE s
  ELSE s
ShellToGui(s, current) ==
  IF s.shell_id > 0 /\ s.tick_count % SyncEvery = 0
  THEN LET r == ReadCwd(s, s.shell_id)
       IN  IF ~r.ok THEN [s EXCEPT !.shell_id = 0]
           ELSE IF r.target # current /\ r.dir /\ NavigateTo(s, r.target).ok
           THEN Refresh([NavigateTo(s, r.target).s EXCEPT
                           !.last_synced_path = r.target, !.obs.echo = 1])
           ELSE s
  ELSE s

\* App::tick, "Read from PTY": every chunk try_recv hands out is processed
\* by the parser, in the order of the channel
ReadFromPty(s) ==
  IF s.pty_reader_rx
  THEN [s EXCEPT !.out.channel = <<>>,
                 !.out.fed = IF s.pty_parser THEN @ \o s.out.channel ELSE @]
  ELSE s

\* one turn of the "Read from PTY" loop: try_recv hands out the first chunk
\* of the channel and the parser processes it
DrainStepF(s) ==
  [s EXCEPT !.out.channel = Tail(@),
            !.out.fed = IF s.pty_parser THEN Append(@, Head(s.out.channel)) ELSE @,
            !.obs.drain = IF @.begun < 0
                          THEN [begun |-> Len(s.out.channel), fed |-> 1]
                          ELSE [@ EXCEPT !.fed = @ + 1]]

\* App::tick
TickF(s0, found) ==
  LET s  == ReadFromPty(Begin(s0))
      s1 == [s EXCEPT !.tick_count = (@ + 1) % TickWrap,
                      !.obs.echo = IF @ = 0 THEN 0 ELSE 2]
      s2 == IF s1.tick_count % RefreshEvery = 0 THEN Refresh(s1) ELSE s1
      current == s2.current_dir
      s3 == GuiToShell(s2)
      s4 == Discover(s3, found)
  IN  [ShellToGui(s4, current) EXCEPT !.obs.drain = NoDrain]

(***************************************************************************)
(* App: PTY session, clipboard, deletion.                                  *)
(***************************************************************************)
\* App::spawn_pty.  spawnOk: openpty and spawn_command succeed; each is
\* unwrapped with expect(), so a failure ends the process.
SpawnPty(s, spawnOk) ==
  IF ~spawnOk \/ ~IsDir(s.fs, s.current_dir)
  THEN [s EXCEPT !.panicked = TRUE]
  ELSE [s EXCEPT !.procs = [pid \in DOMAIN s.procs \cup {s.nextPid} |->
                              IF pid = s.nextPid
                              THEN [cwd |-> s.current_dir, gone |-> FALSE]
                              ELSE s.procs[pid]],
                 !.child = s.nextPid,
                 !.nextPid = s.nextPid + 1,
                 !.ptyIn = <<>>,
                 !.pty_pair = TRUE,
                 !.pty_parser = TRUE,
                 !.pty_writer = TRUE,
                 !.pty_reader_rx = TRUE,
                 !.shell_id = 0,
                 !.out = [live |-> @.live \cup {s.nextPid},
                          log |-> [sid \in DOMAIN @.log \cup {s.nextPid} |->
                                     IF sid = s.nextPid THEN <<>> ELSE @.log[sid]],
                          channel |-> <<>>,
                          fed |-> <<>>],
                 !.obs = ShellsChanged(@)]

\* the Ctrl+D branch of App::on_key: dropping the handles closes the PTY
ClosePtyKeepsWriter(s) ==
  [s EXCEPT !.is_terminal_open = FALSE,
            !.terminal_focused = FALSE,
            !.pty_pair = FALSE,
            !.pty_parser = FALSE,
            !.pty_reader_rx = FALSE,
            !.shell_id = 0,
            !.child = 0,
            !.ptyIn = <<>>,
            !.out.channel = <<>>,
            !.out.fed = <<>>]
ClosePty(s) ==
  [s EXCEPT !.is_terminal_open = FALSE,
            !.terminal_focused = FALSE,
            !.pty_pair = FALSE,
            !.pty_parser = FALSE,
            !.pty_writer = FALSE,
            !.pty_reader_rx = FALSE,
            !.shell_id = 0,
            !.child = 0,
            !.ptyIn = <<>>,
            !.out.channel = <<>>,
            !.out.fed = <<>>]

LowerLetters == {"a", "b", "c", "d", "e", "j", "k", "n", "q", "s", "t", "v", "x"}
\* the bytes App::on_key forwards for a key while the terminal has the focus
InputBytes(k) ==
  CASE k.kind = "Char" ->
         (IF k.ctrl
          THEN (IF k.arg \in LowerLetters THEN <<"^" \o k.arg>>
                ELSE IF k.arg = "[" THEN <<"\\x1b">>
                ELSE IF k.arg = " " THEN <<"\\0">>
                ELSE <<k.arg>>)
          ELSE <<k.arg>>)
    [] k.kind = "Enter" -> <<"\r">>
    [] k.kind = "Backspace" -> <<"\\x7f">>
    [] k.kind = "Tab" -> <<"\t">>
    [] k.kind = "Esc" -> <<"\\x1b">>
    [] k.kind = "Up" -> <<"\\x1b", "[", "A">>
    [] k.kind = "Down" -> <<"\\x1b", "[", "B">>
    [] k.kind = "Right" -> <<"\\x1b", "[", "C">>
    [] k.kind = "Left" -> <<"\\x1b", "[", "D">>
    [] k.kind = "PageUp" -> <<"\\x1b", "[", "5", "~">>
    [] k.kind = "PageDown" -> <<"\\x1b", "[", "6", "~">>
    [] k.kind = "Delete" -> <<"\\x1b", "[", "3", "~">>
    [] k.kind = "Home" -> <<"\\x1b", "[", "H">>
    [] k.kind = "End" -> <<"\\x1b", "[", "F">>
    [] OTHER -> <<>>

\* "Forward input to PTY"
ForwardKey(s, k) ==
  IF s.pty_writer /\ InputBytes(k) # <<>>
  THEN [s EXCEPT !.ptyIn = Append(@, InputBytes(k))]
  ELSE s

\* App::clear_selection_if_needed
ClearSelectionIfNeeded(s) ==
  LET in_clipboard == /\ s.clipboard.mode # "None"
                      /\ \E path \in s.selected_paths : path \in s.clipboard.paths
  IN  IF ~in_clipboard THEN [s EXCEPT !.selected_paths = {}] ELSE s

\* the selection a copy, a cut and a delete act on: the selection set, or
\* the entry under the cursor when the set is empty
ActionPaths(s) ==
  IF s.selected_paths # {} THEN s.selected_paths
  ELSE IF HasCursorEntry(s) /\ ~Synthetic(CursorEntry(s)) THEN {CursorEntry(s).path}
  ELSE {}

\* App::perform_clipboard_action
PerformClipboardAction(s, mode) ==
  IF ActionPaths(s) # {}
  THEN [s EXCEPT !.clipboard = Clipboard(ActionPaths(s), mode), !.selected_paths = {}]
  ELSE s

\* the loop of App::paste_clipboard over the clipboard's paths, in the order
\* todo; a failure of one copy or move is dropped and the loop goes on
RECURSIVE PasteAll(_, _, _, _)
PasteAll(s, todo, mode, crossDevice) ==
  IF todo = <<>> THEN s
  ELSE LET src == Head(todo)
           dst == Join(s.current_dir, FileName(src))
           r == IF mode = "Copy" THEN CopyRecursive(s.fs, src, dst)
                ELSE MoveEntry(s.fs, src, dst, crossDevice)
       IN  IF ~HasFileName(src) THEN PasteAll(s, Tail(todo), mode, crossDevice)
           ELSE PasteAll([s EXCEPT !.fs = r.fs,
                                   !.obs.pasted = @ \cup {<<src, dst, mode>>},
                                   !.obs.failed = @ \/ ~r.ok],
                         Tail(todo), mode, crossDevice)

\* App::paste_clipboard.  The faulty variant that comes first drops the
\* clipboard after every paste.
PasteKeepsNothing(s, crossDevice) ==
  IF s.clipboard.mode = "None" THEN s
  ELSE Refresh([PasteAll(s, OrderPaths(s.clipboard.paths), s.clipboard.mode, crossDevice)
                  EXCEPT !.clipboard = NoClipboard])
PasteClipboard(s, crossDevice) ==
  IF s.clipboard.mode = "None" THEN s
  ELSE LET done == PasteAll(s, OrderPaths(s.clipboard.paths), s.clipboard.mode, crossDevice)
       IN  Refresh([done EXCEPT !.clipboard = IF s.clipboard.mode = "Cut"
                                               THEN NoClipboard ELSE @])

RECURSIVE DeleteAll(_, _)
DeleteAll(s, todo) ==
  IF todo = <<>> THEN s
  ELSE DeleteAll([s EXCEPT !.fs = DeleteRecursive(@, Head(todo)).fs,
                           !.obs.deleted = @ \cup {Head(todo)},
                           !.obs.failed = @ \/ ~DeleteRecursive(s.fs, Head(todo)).ok],
                 Tail(todo))

\* App::delete_selected
DeleteSelected(s) ==
  Refresh([DeleteAll(s, OrderPaths(ActionPaths(s))) EXCEPT !.selected_paths = {}])

\* App::trigger_deep_search: rooted at "/"
TriggerDeepSearch(s) ==
  [s EXCEPT !.filtered_entries = SearchRecursive(s.fs, Root, s.search_query),
            !.is_searching = FALSE,
            !.selected_index = 0]

(***************************************************************************)
(* App::on_key.                                                            *)
(***************************************************************************)
Pop(str) == IF str = <<>> THEN <<>> ELSE SubSeq(str, 1, Len(str) - 1)
SatSub(a, b) == IF a >= b THEN a - b ELSE 0
Min(a, b) == IF a <= b THEN a ELSE b

\* "enter" on a directory and "backspace": the steps after a navigation
AfterNavigationKeepsQuery(s) ==
  [Refresh(ClearSelectionIfNeeded(UserNavigated(s, s.current_dir)))
     EXCEPT !.selected_index = 0]
AfterNavigation(s) ==
  [Refresh([ClearSelectionIfNeeded(UserNavigated(s, s.current_dir))
              EXCEPT !.search_query = <<>>])
     EXCEPT !.selected_index = 0]

\* the viewport-top key
JumpViewportTop(s) == [s EXCEPT !.selected_index = s.list_state.offset]

\* select_all
SelectAll(s) ==
  [s EXCEPT !.selected_paths =
     @ \cup {s.filtered_entries[i].path : i \in
               {j \in 1..Len(s.filtered_entries) : ~Synthetic(s.filtered_entries[j])}}]

\* select
ToggleSelect(s) ==
  IF HasCursorEntry(s) /\ ~Synthetic(CursorEntry(s))
  THEN [s EXCEPT !.selected_paths =
          IF CursorEntry(s).path \in @ THEN @ \ {CursorEntry(s).path}
          ELSE @ \cup {CursorEntry(s).path}]
  ELSE s

\* the delete key: opens the confirmation prompt
OpenDeletePrompt(s) ==
  IF s.selected_paths # {} \/ HasCursorEntry(s)
  THEN [s EXCEPT !.input_mode = PromptDelete,
                 !.prompt_index = 1,
                 !.obs.captured = ActionPaths(s)]
  ELSE s

\* InputMode::Normal with the browser focused: the chain of bindings
BrowserKey(s, k, ev, crossDevice) ==
  LET kb == s.keybindings
      len1 == SatSub(Len(s.filtered_entries), 1)
      r ==
        IF ev = kb.up \/ k.kind = "Up"
        THEN (IF s.selected_index > 0 THEN [s EXCEPT !.selected_index = @ - 1] ELSE s)
        ELSE IF ev = kb.down \/ k.kind = "Down"
        THEN (IF s.selected_index < len1 THEN [s EXCEPT !.selected_index = @ + 1] ELSE s)
        ELSE IF ev = kb.enter \/ k.kind = "Enter"
        THEN (IF HasCursorEntry(s) /\ CursorEntry(s).is_dir
                 /\ NavigateTo(s, CursorEntry(s).path).ok
              THEN AfterNavigation(NavigateTo(s, CursorEntry(s).path).s)
              ELSE s)
        ELSE IF ev = kb.backspace \/ k.kind = "Backspace"
        THEN (IF NavigateUp(s).ok THEN AfterNavigation(NavigateUp(s).s) ELSE s)
        ELSE IF ev = kb.edit
        THEN (IF HasCursorEntry(s) /\ ~Synthetic(CursorEntry(s))
              THEN [s EXCEPT !.edit_buffer =
                               IF CursorEntry(s).description = NoDesc THEN <<>>
                               ELSE CursorEntry(s).description,
                             !.input_mode = Editing,
                             !.obs.captured = {CursorEntry(s).path}]
              ELSE s)
        ELSE IF ev = kb.settings
        THEN [s EXCEPT !.input_mode = ConfigMode, !.config_index = 0]
        ELSE IF ev = kb.search THEN [s EXCEPT !.input_mode = Search]
        ELSE IF ev = kb.ctrl_home THEN [s EXCEPT !.selected_index = 0]
        ELSE IF ev = kb.ctrl_end THEN [s EXCEPT !.selected_index = len1]
        ELSE IF ev = kb.home \/ k.kind = "Home" THEN JumpViewportTop(s)
        ELSE IF ev = kb.end \/ k.kind = "End"
        THEN [s EXCEPT !.selected_index =
                Min(SatSub(s.list_state.offset + s.list_height, 1), len1)]
        ELSE IF ev = kb.page_up \/ k.kind = "PageUp"
        THEN [s EXCEPT !.selected_index = SatSub(@, s.list_height)]
        ELSE IF ev = kb.page_down \/ k.kind = "PageDown"
        THEN [s EXCEPT !.selected_index = Min(@ + s.list_height, len1)]
        ELSE IF ev = kb.select_all THEN SelectAll(s)
        ELSE IF ev = kb.deselect_all THEN [s EXCEPT !.selected_paths = {}]
        ELSE IF ev = kb.select THEN ToggleSelect(s)
        ELSE IF ev = kb.copy THEN PerformClipboardAction(s, "Copy")
        ELSE IF ev = kb.cut THEN PerformClipboardAction(s, "Cut")
        ELSE IF ev = kb.paste THEN PasteClipboard(s, crossDevice)
        ELSE IF ev = kb.new_folder
        THEN [s EXCEPT !.prompt_buffer = <<>>, !.input_mode = PromptNewFolder]
        ELSE IF ev = kb.delete THEN OpenDeletePrompt(s)
        ELSE IF ev = kb.help THEN [s EXCEPT !.input_mode = Help]
        ELSE IF ev = kb.quit THEN s
        ELSE IF k.kind = "Esc"
        THEN ApplyFilter([s EXCEPT !.selected_paths = {}, !.search_query = <<>>])
        ELSE s
  IN  [r EXCEPT !.list_state = ListSelect(@, r.selected_index)]

\* InputMode::Normal
NormalKey(s, k, ev, spawnOk, crossDevice) ==
  IF ev = s.keybindings.toggle_terminal
  THEN (IF ~s.is_terminal_open
        THEN LET o == [s EXCEPT !.is_terminal_open = TRUE, !.terminal_focused = TRUE]
             IN  IF ~o.pty_pair THEN SpawnPty(o, spawnOk) ELSE o
        ELSE [s EXCEPT !.is_terminal_open = FALSE, !.terminal_focused = FALSE])
  ELSE IF ev = s.keybindings.terminal_prefix
  THEN (IF s.is_terminal_open THEN [s EXCEPT !.terminal_focused = ~@] ELSE s)
  ELSE IF s.terminal_focused
  THEN (IF k.ctrl /\ ~k.alt /\ ~k.shift /\ k.kind = "Char" /\ k.arg = "d"
        THEN ClosePty(s)
        ELSE ForwardKey(s, k))
  ELSE BrowserKey(s, k, ev, crossDevice)

\* InputMode::Prompt(NewFolder)
NewFolderKey(s, k) ==
  CASE k.kind = "Enter" ->
         LET made == CreateDir(s.fs, Join(s.current_dir, s.prompt_buffer))
             t == IF s.prompt_buffer = <<>> THEN s
                  ELSE IF ~made.ok
                  THEN [s EXCEPT !.error_message = "create_dir failed",
                                 !.obs.failed = TRUE]
                  ELSE Refresh([s EXCEPT !.fs = made.fs])
         IN  [t EXCEPT !.input_mode = Normal, !.prompt_buffer = <<>>]
    [] k.kind = "Esc" -> [s EXCEPT !.input_mode = Normal, !.prompt_buffer = <<>>]
    [] k.kind = "Char" -> [s EXCEPT !.prompt_buffer = Append(@, k.arg)]
    [] k.kind = "Backspace" -> [s EXCEPT !.prompt_buffer = Pop(@)]
    [] OTHER -> s

\* InputMode::Prompt(DeleteConfirmation).  The faulty variant that comes
\* first deletes on Enter whatever the choice.
DeleteConfirmKeyAnyChoice(s, k) ==
  CASE k.kind = "Enter" -> [DeleteSelected(s) EXCEPT !.input_mode = Normal]
    [] k.kind = "Esc" -> [s EXCEPT !.input_mode = Normal]
    [] k.kind \in {"Left", "Right", "Tab"} -> [s EXCEPT !.prompt_index = 1 - @]
    [] OTHER -> s
DeleteConfirmKey(s, k) ==
  CASE k.kind = "Enter" ->
         [(IF s.prompt_index = 0 THEN DeleteSelected(s) ELSE s)
            EXCEPT !.input_mode = Normal]
    [] k.kind = "Esc" -> [s EXCEPT !.input_mode = Normal]
    [] k.kind \in {"Left", "Right", "Tab"} -> [s EXCEPT !.prompt_index = 1 - @]
    [] OTHER -> s

\* InputMode::Help
HelpKey(s, k, ev) ==
  IF k.kind = "Esc" \/ (k.kind = "F" /\ k.arg = "1") \/ ev = s.keybindings.help
  THEN [s EXCEPT !.input_mode = Normal]
  ELSE s

EditingKeyEscSaves(s, k) ==
  CASE (k.kind = "F" /\ k.arg = "2") \/ k.kind = "Esc" ->
         LET saved == IF HasCursorEntry(s)
                      THEN [s EXCEPT !.fs = SetDescription(@, CursorEntry(s).path,
                                                    s.edit_buffer).fs]
                      ELSE s
         IN  Refresh([saved EXCEPT !.input_mode = Normal])
    [] k.kind = "Enter" -> [s EXCEPT !.edit_buffer = Append(@, "\n")]
    [] k.kind = "Char" -> [s EXCEPT !.edit_buffer = Append(@, k.arg)]
    [] k.kind = "Backspace" -> [s EXCEPT !.edit_buffer = Pop(@)]
    [] OTHER -> s

\* InputMode::Editing
EditingKey(s, k) ==
  CASE k.kind = "F" /\ k.arg = "2" ->
         LET saved == IF HasCursorEntry(s)
                      THEN [s EXCEPT !.fs = SetDescription(@, CursorEntry(s).path,
                                                    s.edit_buffer).fs]
                      ELSE s
         IN  Refresh([saved EXCEPT !.input_mode = Normal])
    [] k.kind = "Enter" -> [s EXCEPT !.edit_buffer = Append(@, "\n")]
    [] k.kind = "Esc" -> [s EXCEPT !.input_mode = Normal]
    [] k.kind = "Char" -> [s EXCEPT !.edit_buffer = Append(@, k.arg)]
    [] k.kind = "Backspace" -> [s EXCEPT !.edit_buffer = Pop(@)]
    [] OTHER -> s

\* InputMode::Search
SearchKey(s, k) ==
  CASE k.kind = "Enter" ->
         LET n == [s EXCEPT !.input_mode = Normal]
         IN  IF s.search_query # <<>> THEN TriggerDeepSearch(n) ELSE n
    [] k.kind = "Esc" -> [s EXCEPT !.input_mode = Normal]
    [] k.kind = "Char" -> ApplyFilter([s EXCEPT !.search_query = Append(@, k.arg)])
    [] k.kind = "Backspace" -> ApplyFilter([s EXCEPT !.search_query = Pop(@)])
    [] OTHER -> s

\* InputMode::Config
ConfigKey(s, k) ==
  CASE k.kind = "Up" \/ (k.kind = "Char" /\ k.arg = "k") ->
         (IF s.config_index > 0 THEN [s EXCEPT !.config_index = @ - 1] ELSE s)
    [] k.kind = "Down" \/ (k.kind = "Char" /\ k.arg = "j") ->
         (IF s.config_index < SatSub(Len(Actions), 1)
          THEN [s EXCEPT !.config_index = @ + 1] ELSE s)
    [] k.kind = "Enter" ->
         (IF s.config_index < Len(Actions)
          THEN [s EXCEPT !.input_mode = Remapping(Actions[s.config_index + 1]),
                         !.error_message = NoError]
          ELSE s)
    [] k.kind = "Esc" -> [s EXCEPT !.input_mode = Normal, !.error_message = NoError]
    [] OTHER -> s

\* InputMode::Remapping(action)
RemappingKey(s, k, ev) ==
  IF ev # "" /\ k.kind # "Esc"
  THEN LET r == SetKey(s.keybindings, s.input_mode.arg, ev)
       IN  IF r.ok
           THEN [s EXCEPT !.keybindings = r.kb, !.input_mode = ConfigMode,
                          !.error_message = NoError]
           ELSE [s EXCEPT !.error_message = r.err]
  ELSE IF k.kind = "Esc"
  THEN [s EXCEPT !.input_mode = ConfigMode, !.error_message = NoError]
  ELSE s

\* App::on_key
OnKeyF(s0, k, spawnOk, crossDevice) ==
  LET s == Begin(s0)
      ev == KeyEventToString(k)
  IN  CASE s.input_mode.tag = "Normal" -> NormalKey(s, k, ev, spawnOk, crossDevice)
        [] s.input_mode = PromptNewFolder -> NewFolderKey(s, k)
        [] s.input_mode = PromptDelete -> DeleteConfirmKey(s, k)
        [] s.input_mode.tag = "Help" -> HelpKey(s, k, ev)
        [] s.input_mode.tag = "Editing" -> EditingKey(s, k)
        [] s.input_mode.tag = "Search" -> SearchKey(s, k)
        [] s.input_mode.tag = "Config" -> ConfigKey(s, k)
        [] s.input_mode.tag = "Remapping" -> RemappingKey(s, k, ev)

(***************************************************************************)
(* render (src/ui/ui.rs): what it writes back into the session.            *)
(***************************************************************************)
\* the height of the "Files" list inside its borders: the main area, or its
\* upper 60% while the terminal pane is open
ListHeight(rows, terminal_open) ==
  SatSub(IF terminal_open THEN (rows * 60) \div 100 ELSE rows, 2)

\* List's StatefulWidget::render for rows of height one: nothing is done in
\* an empty area; an empty list clears the selection; a selection past the
\* end is pulled to the last item; the offset moves just far enough to show
\* the selected item.
ListRender(ls, len, h) ==
  IF h = 0 THEN ls
  ELSE IF len = 0 THEN [selected |-> -1, offset |-> 0]
  ELSE LET sel == IF ls.selected >= len THEN len - 1 ELSE ls.selected
           off == Min(ls.offset, len - 1)
           show == IF sel = -1 THEN off ELSE sel
           first == IF show < off THEN show
                    ELSE IF show >= off + h THEN show - h + 1
                    ELSE off
       IN  [selected |-> sel, offset |-> first]

\* ui::render: render_config in Config and Remapping, render_main otherwise
RenderF(s0, rows) ==
  LET s == Begin(s0)
      h == ListHeight(rows, s.is_terminal_open)
  IN  IF s.input_mode.tag \in {"Config", "Remapping"} THEN s
      ELSE [s EXCEPT !.list_height = h,
                     !.list_state = ListRender(@, Len(s.filtered_entries), h)]

(***************************************************************************)
(* The initial state: App::new in some directory of the initial tree.      *)
(***************************************************************************)
InitFs ==
  LET a == <<NameA>>
      b == <<NameB>>
  IN  (Root :> NewDir) @@ (a :> NewDir) @@ (b :> Node("file", NoDesc, 1))
      @@ (<<NameA, NameA>> :> NewDir) @@ (<<NameA, NameB>> :> Node("file", NoDesc, 2))

NoProcs == [pid \in {} |-> [cwd |-> Root, gone |-> FALSE]]

\* no session yet: no reader thread, no channel, no parser
NoOutput == [live |-> {}, log |-> << >>, channel |-> <<>>, fed |-> <<>>]

\* no snapshot of the process table taken yet
NoTable == [snap |-> << >>, root |-> 0, readable |-> TRUE, found |-> -1]

\* App::new
AppNew(dir) ==
  Refresh(
    [ fs |-> InitFs, procs |-> NoProcs, child |-> 0, nextPid |-> 1,
      ptyIn |-> <<>>, external |-> 0, panicked |-> FALSE,
      current_dir |-> dir, all_entries |-> <<>>, filtered_entries |-> <<>>,
      selected_index |-> 0, input_mode |-> Normal, edit_buffer |-> <<>>,
      search_query |-> <<>>, keybindings |-> DefaultKeybindings,
      config_index |-> 0, error_message |-> NoError, is_searching |-> FALSE,
      selected_paths |-> {}, clipboard |-> NoClipboard, prompt_buffer |-> <<>>,
      list_state |-> [selected |-> -1, offset |-> 0], list_height |-> 0,
      prompt_index |-> 0, is_terminal_open |-> FALSE, terminal_focused |-> FALSE,
      pty_pair |-> FALSE, pty_parser |-> FALSE, pty_writer |-> FALSE,
      pty_reader_rx |-> FALSE, shell_id |-> 0, last_synced_path |-> dir,
      tick_count |-> 0, out |-> NoOutput, table |-> NoTable, obs |-> Obs0 ])

StartDirs == {Root, <<NameA>>}

InitEnv(rows, tables, limits) ==
  /\ main_rows \in rows
  /\ path_max \in limits
  /\ pc = "draw"
  /\ \E dir \in StartDirs :
       LET r == AppNew(dir)
       IN  /\ fs = r.fs /\ procs = r.procs /\ child = r.child /\ nextPid = r.nextPid
           /\ ptyIn = r.ptyIn /\ external = r.external /\ panicked = r.panicked
           /\ current_dir = r.current_dir /\ all_entries = r.all_entries
           /\ filtered_entries = r.filtered_entries
           /\ selected_index = r.selected_index /\ input_mode = r.input_mode
           /\ edit_buffer = r.edit_buffer /\ search_query = r.search_query
           /\ keybindings = r.keybindings /\ config_index = r.config_index
           /\ error_message = r.error_message /\ is_searching = r.is_searching
           /\ selected_paths = r.selected_paths /\ clipboard = r.clipboard
           /\ prompt_buffer = r.prompt_buffer /\ list_state = r.list_state
           /\ list_height = r.list_height /\ prompt_index = r.prompt_index
           /\ is_terminal_open = r.is_terminal_open
           /\ terminal_focused = r.terminal_focused /\ pty_pair = r.pty_pair
           /\ pty_parser = r.pty_parser /\ pty_writer = r.pty_writer
           /\ pty_reader_rx = r.pty_reader_rx /\ shell_id = r.shell_id
           /\ last_synced_path = r.last_synced_path /\ tick_count = r.tick_count
           /\ out = r.out /\ table \in tables /\ obs = r.obs

InitApp(rows, tables) == InitEnv(rows, tables, {MaxDepth})

InitWith(rows) == InitApp(rows, {NoTable})

(***************************************************************************)
(* run_app (src/main.rs): draw, tick, then at most one key event.          *)
(***************************************************************************)
Running == pc # "done" /\ ~panicked

\* terminal.draw(|f| ui::ui::render(f, &mut app))
Render ==
  /\ Running /\ pc = "draw"
  /\ Commit(RenderF(St, main_rows))
  /\ pc' = "tick"
  /\ UNCHANGED << main_rows, path_max >>

\* find_shell_pid(std::process::id()): a live shell below this process, in
\* the order the process table hands them out; None when there is none
FoundShells == IF DOMAIN procs = {} THEN {0} ELSE DOMAIN procs

\* app.tick()
Tick ==
  /\ Running /\ pc = "tick"
  /\ \E found \in FoundShells : Commit(TickF(St, found))
  /\ pc' = "poll"
  /\ UNCHANGED << main_rows, path_max >>

\* app.tick(), one turn of its "Read from PTY" loop on its own: the reader
\* thread runs while the loop does, and may send between two turns.  Tick
\* runs the turns that are left, and the rest of the tick, in one step.
DrainStep ==
  /\ Running /\ pc = "tick"
  /\ pty_reader_rx /\ out.channel # <<>>
  /\ Commit(DrainStepF(Begin(St)))
  /\ UNCHANGED << main_rows, path_max, pc >>

\* event::poll times out: no key in this frame
NoKey ==
  /\ Running /\ pc = "poll"
  /\ pc' = "draw"
  /\ UNCHANGED << main_rows, path_max, fs, procs, child, nextPid, ptyIn, external, panicked,
                  current_dir, all_entries, filtered_entries, selected_index,
                  input_mode, edit_buffer, search_query, keybindings, config_index,
                  error_message, is_searching, selected_paths, clipboard,
                  prompt_buffer, list_state, list_height, prompt_index,
                  is_terminal_open, terminal_focused, pty_pair, pty_parser,
                  pty_writer, pty_reader_rx, shell_id, last_synced_path,
                  tick_count, out, table, obs >>

\* "if code_str == app.config.keybindings.quit": the character alone
QuitMatch(k) == (IF k.kind = "Char" THEN k.arg ELSE "") = keybindings.quit

\* a key event the focused terminal pane forwards to the PTY
Forwarded(k) ==
  /\ input_mode = Normal /\ terminal_focused
  /\ KeyEventToString(k) \notin {keybindings.toggle_terminal, keybindings.terminal_prefix}
IsKeyChunk(c) == ~IsCdChunk(c)

\* what keeps the model finite: the user types no more than MaxText
\* characters into a buffer, stops typing into the terminal while MaxTyped
\* keys are unread and stops using the browser while MaxQueue cd commands
\* are unread, and opens no more than MaxPid sessions
KeyAllowed(k) ==
  /\ IF Forwarded(k) THEN Len(SelectSeq(ptyIn, IsKeyChunk)) < MaxTyped
     ELSE Len(SelectSeq(ptyIn, IsCdChunk)) < MaxQueue
  /\ (k.kind = "Char" \/ k.kind = "Enter") =>
       /\ input_mode = Search => Len(search_query) < MaxText \/ k.kind = "Enter"
       /\ input_mode = PromptNewFolder => Len(prompt_buffer) < MaxText \/ k.kind = "Enter"
       /\ input_mode = Editing => Len(edit_buffer) < MaxText
  /\ nextPid <= MaxPid \/ pty_pair \/ KeyEventToString(k) # keybindings.toggle_terminal

\* one key event read by the loop
OnKey(k, spawnOk, crossDevice) ==
  /\ Running /\ pc = "poll"
  /\ KeyAllowed(k)
  /\ IF QuitMatch(k)
     THEN /\ pc' = "done"
          /\ UNCHANGED << fs, procs, child, nextPid, ptyIn, external, panicked,
                  current_dir, all_entries, filtered_entries, selected_index,
                  input_mode, edit_buffer, search_query, keybindings, config_index,
                  error_message, is_searching, selected_paths, clipboard,
                  prompt_buffer, list_state, list_height, prompt_index,
                  is_terminal_open, terminal_focused, pty_pair, pty_parser,
                  pty_writer, pty_reader_rx, shell_id, last_synced_path,
                  tick_count, out, table, obs >>
     ELSE /\ pc' = "draw"
          /\ Commit(OnKeyF(St, k, spawnOk, crossDevice))
  /\ UNCHANGED << main_rows, path_max >>

(***************************************************************************)
(* The environment.  Its steps are taken before a tick or before a key is  *)
(* read: a draw reads and writes nothing the environment touches, so a     *)
(* step before a draw is the same as that step after it.                   *)
(***************************************************************************)
EnvTurn == Running /\ pc # "draw"

\* the session's shell reads the next chunk of its input; a well-formed cd
\* of an existing directory changes its working directory
ShellReadF(s) ==
  LET chunk == Head(s.ptyIn)
      target == ParsePath(CdArg(chunk), <<>>, <<>>)
      moves == IsCdChunk(chunk) /\ IsDir(s.fs, target)
                 /\ (s.procs[s.child].cwd # target \/ s.procs[s.child].gone)
  IN  [s EXCEPT !.ptyIn = Tail(@),
                !.procs = IF moves
                          THEN [@ EXCEPT ![s.child] = [cwd |-> target, gone |-> FALSE]]
                          ELSE @,
                !.obs = IF moves THEN ShellsChanged(@) ELSE @]

ShellRead ==
  /\ EnvTurn
  /\ child \in DOMAIN procs /\ ptyIn # <<>>
  /\ Commit(ShellReadF(Begin(St)))
  /\ UNCHANGED << main_rows, path_max, pc >>

\* the user's own command in the terminal moves the session's shell to d
ShellChdir(d) ==
  /\ EnvTurn
  /\ child \in DOMAIN procs /\ IsDir(fs, d) /\ procs[child].cwd # d
  /\ Commit([Begin(St) EXCEPT
               !.procs = [@ EXCEPT ![child] = [cwd |-> d, gone |-> FALSE]],
               !.obs = ShellsChanged(@)])
  /\ UNCHANGED << main_rows, path_max, pc >>

\* a shell process ends: on the hang-up after its PTY was dropped, or on exit
ShellExit(pid) ==
  /\ EnvTurn
  /\ pid \in DOMAIN procs
  /\ Commit([Begin(St) EXCEPT
               !.procs = [q \in DOMAIN procs \ {pid} |-> procs[q]],
               !.obs = ShellsChanged(@)])
  /\ UNCHANGED << main_rows, path_max, pc >>

\* The reader thread of session sid reads the next chunk of the shell's
\* output (chunk n of session sid is <<sid, n>>) and sends it; the send fails,
\* and the chunk is dropped, when the receiver of that channel is gone.
ReaderReadShared(s, sid) ==
  LET chunk == <<sid, Len(s.out.log[sid]) + 1>>
  IN  [s EXCEPT !.out.log[sid] = Append(@, chunk),
                !.out.channel = IF s.pty_reader_rx THEN Append(@, chunk) ELSE @]

ReaderReadF(s, sid) ==
  LET chunk == <<sid, Len(s.out.log[sid]) + 1>>
  IN  [s EXCEPT !.out.log[sid] = Append(@, chunk),
                !.out.channel = IF s.pty_reader_rx /\ s.child = sid
                                THEN Append(@, chunk) ELSE @]

ReaderRead(sid) ==
  /\ EnvTurn
  /\ sid \in out.live /\ sid \in DOMAIN procs /\ Len(out.log[sid]) < MaxOut
  /\ Commit(ReaderReadF(Begin(St), sid))
  /\ UNCHANGED << main_rows, path_max, pc >>

\* The read of the reader thread of session sid returns EOF or an error and
\* the thread leaves its loop: no process holds the other side of the PTY
\* any more (the shell has ended, the session has dropped its pair).
ReaderExit(sid) ==
  /\ EnvTurn
  /\ sid \in out.live /\ sid \notin DOMAIN procs /\ ~(pty_pair /\ child = sid)
  /\ Commit([Begin(St) EXCEPT !.out.live = @ \ {sid}])
  /\ UNCHANGED << main_rows, path_max, pc >>

\* another program removes an entry, or creates one
ExternalRemove(p) ==
  /\ EnvTurn /\ external < MaxExternal
  /\ p \in DOMAIN fs /\ p # Root
  /\ Commit([Begin(St) EXCEPT
               !.fs = DeleteRecursive(@, p).fs, !.external = @ + 1])
  /\ UNCHANGED << main_rows, path_max, pc >>

\* another program sets the description attribute of an entry
ExternalDescribe(p, d) ==
  /\ EnvTurn /\ external < MaxExternal
  /\ p \in DOMAIN fs /\ Readable(fs, p)
  /\ Commit([Begin(St) EXCEPT !.fs = SetAttr(@, p, d).fs, !.external = @ + 1])
  /\ UNCHANGED << main_rows, path_max, pc >>

ExternalCreate(p, kind) ==
  /\ EnvTurn /\ external < MaxExternal
  /\ p \notin DOMAIN fs /\ HasParent(p) /\ IsDir(fs, Parent(p)) /\ PathOk(p)
  /\ Commit([Begin(St) EXCEPT
               !.fs = Put(@, p, Node(kind, NoDesc, 0)), !.external = @ + 1])
  /\ UNCHANGED << main_rows, path_max, pc >>

(***************************************************************************)
(* Specifications.  Each draws the key events from the keys its claims are *)
(* about; the handlers are the same in all of them.                        *)
(***************************************************************************)
Dirs == {p \in DOMAIN fs : IsDir(fs, p)}

\* navigation in the browser and the terminal pane
KeysSync ==
  { Plain("Enter"), Plain("Backspace"), Ctrl("t"), Ctrl("b") }

NextSync ==
  \/ Render
  \/ Tick
  \/ NoKey
  \/ \E k \in KeysSync : OnKey(k, TRUE, FALSE)
  \/ ShellRead
  \/ \E d \in Dirs : ShellChdir(d)
  \/ \E pid \in DOMAIN procs : ShellExit(pid)

InitSync == InitWith({MaxRows})

SpecSync == InitSync /\ [][NextSync]_vars

\* the same with a shell that changes directory only by reading its input.
\* The loop of run_app keeps drawing, ticking and polling, and the shell
\* process, scheduled on its own, reads what is written to it.
KeysFair == { Plain("Enter"), Plain("Backspace"), Char("j"), Ctrl("t") }

NextFair ==
  \/ Render
  \/ Tick
  \/ NoKey
  \/ \E k \in KeysFair : OnKey(k, TRUE, FALSE)
  \/ ShellRead

\* the loop leaves the position from for the position to
LoopAdvances(from, to) == Running /\ pc = from /\ pc' = to
\* the shell takes the first chunk off its input
ShellReads ==
  EnvTurn /\ child \in DOMAIN procs /\ ptyIn # <<>> /\ ptyIn' = Tail(ptyIn)

FairSync ==
  /\ InitSync /\ [][NextFair]_vars
  /\ WF_pc(LoopAdvances("draw", "tick"))
  /\ WF_pc(LoopAdvances("tick", "poll"))
  /\ WF_pc(LoopAdvances("poll", "draw"))
  /\ SF_ptyIn(ShellReads)

\* moving the cursor in a listing that other programs and the shell change
KeysCursor ==
  { Char("j"), Plain("Home"), Plain("End"), Plain("PageUp"), Plain("PageDown"),
    Key("Home", "", TRUE, FALSE, FALSE), Key("End", "", TRUE, FALSE, FALSE),
    Plain("Enter"), Plain("Backspace") }

NextCursor ==
  \/ Render
  \/ Tick
  \/ NoKey
  \/ \E k \in KeysCursor : OnKey(k, TRUE, FALSE)
  \/ \E p \in DOMAIN fs : ExternalRemove(p)

InitCursor == InitWith({MaxRows - 1, MaxRows})

SpecCursor == InitCursor /\ [][NextCursor]_vars

\* selecting, copying and navigating
KeysSelect ==
  { Char("j"), Char(" "), Ctrl("a"), Ctrl("d"), Ctrl("c"), Plain("Enter"),
    Plain("Backspace"), Plain("Esc") }

NextSelect ==
  \/ Render
  \/ Tick
  \/ NoKey
  \/ \E k \in KeysSelect : OnKey(k, TRUE, FALSE)

SpecSelect == InitSync /\ [][NextSelect]_vars

\* copying, cutting and pasting between directories
PasteKey == Ctrl("v")
KeysPaste ==
  { Char("j"), Ctrl("c"), Ctrl("x"), PasteKey, Plain("Enter"), Plain("Backspace") }

NextPaste ==
  \/ Render
  \/ Tick
  \/ NoKey
  \/ \E k \in KeysPaste, crossDevice \in BOOLEAN : OnKey(k, TRUE, crossDevice)

SpecPaste == InitSync /\ [][NextPaste]_vars

\* deleting, while other programs remove entries
DeleteKey == Key("Delete", "", FALSE, FALSE, TRUE)
KeysDelete ==
  { Char("j"), Char(" "), DeleteKey, Plain("Enter"), Plain("Esc"), Plain("Left"),
    Plain("Right"), Plain("Tab") }

NextDelete ==
  \/ Render
  \/ Tick
  \/ NoKey
  \/ \E k \in KeysDelete : OnKey(k, TRUE, FALSE)
  \/ \E p \in DOMAIN fs : ExternalRemove(p)

SpecDelete == InitSync /\ [][NextDelete]_vars

(***************************************************************************)
(* Directory sync between the browser and the shell (App::tick).           *)
(***************************************************************************)
\* a step of App::tick: the only step that changes tick_count
TickStep == tick_count' # tick_count
CdChunks(q) == SelectSeq(q, IsCdChunk)

\* C1: after the user navigates the browser to D while a PTY session is
\* held, the Directory Model stays on D for as long as no shell process has
\* changed its working directory (or been spawned or ended) since.
C1_NoRace ==
  (obs.nav.dir # NoPath /\ obs.nav.clean) => current_dir = obs.nav.dir

\* C2: a tick whose shell -> GUI step navigates leaves last_synced_path equal
\* to the directory navigated to, and every tick that follows such a
\* navigation, with no user navigation and no shell change in between,
\* writes nothing to the shell.
C2_EchoSuppressed ==
  [][ /\ (TickStep /\ obs'.echo = 1) =>
           (last_synced_path' = current_dir' /\ current_dir' = procs[shell_id'].cwd)
      /\ (TickStep /\ obs.echo >= 1) =>
           (ptyIn' = ptyIn /\ current_dir' = current_dir) ]_vars
\* a second tick has run after a shell -> GUI navigation, undisturbed
C2_Witness == obs.echo = 2 /\ pty_writer /\ current_dir = last_synced_path

\* C4: a tick appends cd '<current directory>' CR to the shell's input, once,
\* exactly when the current directory differs from last_synced_path and a
\* writer exists, and otherwise leaves the input as it is; after the tick
\* last_synced_path is the current directory; no other step adds a cd
\* command to the shell's input.
C4_CdExactlyOnChange ==
  [][ IF TickStep
      THEN /\ ptyIn' = IF current_dir # last_synced_path /\ pty_writer
                       THEN Append(ptyIn, <<"c", "d", " ", "'">> \o PathStr(current_dir)
                                            \o <<"'", "\r">>)
                       ELSE ptyIn
           /\ last_synced_path' = current_dir'
      ELSE Len(CdChunks(ptyIn')) <= Len(CdChunks(ptyIn)) ]_vars
\* a cd of the current directory is the last thing written to the shell
C4_Witness ==
  /\ ptyIn # <<>> /\ ptyIn[Len(ptyIn)] = CdCommand(current_dir)
  /\ last_synced_path = current_dir /\ pty_writer

\* a step in which the user moves the browser to another directory
UserMoved == ~TickStep /\ current_dir' # current_dir
\* model, shell and marker agree and no cd is waiting to be read
Synced ==
  /\ current_dir = last_synced_path
  /\ CdChunks(ptyIn) = <<>>
  /\ child \in DOMAIN procs => procs[child].cwd = current_dir

\* C3: if from some point on the user no longer moves the browser, then from
\* some point on the Directory Model's directory, the shell's working
\* directory and last_synced_path are equal with no cd pending, for good: no
\* tick writes a cd or navigates any more.
C3_NoEchoLoop == (<>[][~UserMoved]_vars) => <>[]Synced
\* the shell has caught up with a browser navigation
C3_Witness ==
  /\ Synced /\ child \in DOMAIN procs /\ shell_id = child
  /\ obs.nav.dir = current_dir /\ ~obs.nav.clean

(***************************************************************************)
(* The cursor and the selection.                                           *)
(***************************************************************************)
\* C5: selected_index is below the length of filtered_entries when the list
\* is not empty, and 0 when it is empty.
C5_CursorValid ==
  IF filtered_entries = <<>> THEN selected_index = 0
  ELSE selected_index < Len(filtered_entries)

\* C6: selected_paths holds the path of no "." or ".." entry of the current
\* listing.
C6_NoSyntheticSelected ==
  \A i \in 1..Len(filtered_entries) :
    Synthetic(filtered_entries[i]) => filtered_entries[i].path \notin selected_paths

\* C7: a navigation by Enter or up-a-level leaves selected_paths as it was
\* if a clipboard exists and holds every selected path, and empties it
\* otherwise.
C7_KeptOnlyIfAllInClipboard ==
  [][ UserMoved =>
        selected_paths' = IF clipboard.mode # "None"
                             /\ selected_paths \subseteq clipboard.paths
                          THEN selected_paths
                          ELSE {} ]_vars

(***************************************************************************)
(* Clipboard and deletion.                                                 *)
(***************************************************************************)
\* the paste key read by on_key
PasteNow(s, crossDevice) == OnKeyF(s, PasteKey, TRUE, crossDevice)

\* C8: pressed in the browser, the paste key leaves no clipboard when the
\* clipboard was a Cut; leaves a Copy clipboard as it was, and pressed again
\* hands the same copies to copy_recursive; and with no clipboard changes
\* neither the tree nor the session.
C8_ClipboardAfterPaste ==
  (input_mode = Normal /\ ~terminal_focused) =>
    \A x \in BOOLEAN :
      LET r == PasteNow(St, x)
      IN  CASE clipboard.mode = "Cut" ->
                 r.clipboard = NoClipboard
            [] clipboard.mode = "Copy" ->
                 /\ r.clipboard = clipboard
                 /\ PasteNow(r, x).obs.pasted = r.obs.pasted
                 /\ PasteNow(r, x).clipboard = clipboard
            [] OTHER ->
                 /\ r.fs = fs /\ r.clipboard = clipboard /\ r.obs.pasted = {}
                 /\ r.current_dir = current_dir /\ r.selected_paths = selected_paths
                 /\ r.filtered_entries = filtered_entries
                 /\ r.selected_index = selected_index
\* a Copy clipboard has just been pasted and is still there
C8_Witness == obs.pasted # {} /\ clipboard.mode = "Copy"

\* every key event the specifications draw from
AllKeys ==
  KeysSync \cup KeysFair \cup KeysCursor \cup KeysSelect \cup KeysPaste \cup KeysDelete
KeyNow(k) == OnKeyF(St, k, TRUE, FALSE)

\* C9: a key deletes only when it is Enter in the delete prompt with OK
\* chosen, and neither a tick nor a draw deletes; in the delete prompt Left,
\* Right and Tab switch the choice and delete nothing, Enter and Esc return
\* to Normal, and Enter on Cancel and Esc leave the tree as it is.
C9_DeleteOnlyOnConfirmedOk ==
  /\ \A k \in AllKeys :
       KeyNow(k).obs.deleted # {} =>
         (input_mode = PromptDelete /\ k.kind = "Enter" /\ prompt_index = 0)
  /\ \A found \in FoundShells : TickF(St, found).obs.deleted = {}
  /\ RenderF(St, main_rows).obs.deleted = {}
  /\ input_mode = PromptDelete =>
       /\ \A k \in {Plain("Left"), Plain("Right"), Plain("Tab")} :
            /\ KeyNow(k).prompt_index = 1 - prompt_index
            /\ KeyNow(k).input_mode = PromptDelete
            /\ KeyNow(k).fs = fs
       /\ KeyNow(Plain("Enter")).input_mode = Normal
       /\ KeyNow(Plain("Esc")).input_mode = Normal
       /\ KeyNow(Plain("Esc")).fs = fs
       /\ prompt_index # 0 => KeyNow(Plain("Enter")).fs = fs
\* the step before deleted something: OK was confirmed
C9_Witness == obs.deleted # {} /\ input_mode = Normal

\* C10: what a confirmed deletion hands to delete_recursive is the selection
\* taken when the prompt was opened.
C10_DeletesCaptured == obs.deleted # {} => obs.deleted = obs.captured

(***************************************************************************)
(* Errors.                                                                 *)
(***************************************************************************)
\* C11: after a step in which a create_dir, a copy, a move or a delete of
\* the session returned an error, error_message holds an error.
C11_FailuresRecorded == obs.failed => error_message # NoError

\* the paths handed to navigate_to: every path of the tree, the paths of
\* the initial tree another program may have removed since, and a path
\* that never exists
Targets == DOMAIN fs \cup DOMAIN InitFs \cup {<<NameB, NameA>>}
\* C12: navigate_to(path) succeeds exactly when path is a directory and then
\* makes it the current directory; when path is not a directory it returns
\* an error and changes nothing.  navigate_up at the root returns false and
\* changes nothing; elsewhere it returns true and the current directory
\* becomes the parent.
C12_NavigateContract ==
  /\ \A path \in Targets :
       LET r == NavigateTo(St, path)
       IN  /\ r.ok <=> IsDir(fs, path)
           /\ IsDir(fs, path) => r.s.current_dir = path
           /\ ~IsDir(fs, path) => r.s = St
  /\ LET u == NavigateUp(St)
     IN  /\ u.ok <=> current_dir # Root
         /\ current_dir = Root => u.s = St
         /\ current_dir # Root => u.s.current_dir = Parent(current_dir)
\* the browser has navigated into /a/a, which another program then removed:
\* navigate_to of the entry "." fails there while navigate_up succeeds
C12_Witness ==
  /\ current_dir = <<NameA, NameA>>
  /\ ~NavigateTo(St, current_dir).ok
  /\ NavigateUp(St).ok

(***************************************************************************)
(* The settings screen: InputMode::Config and InputMode::Remapping.        *)
(***************************************************************************)
\* remapping: "s" opens the settings, the arrow moves the cursor, Enter
\* picks the action; "x" and "down" are keys no default binding uses
KeysRemap == { Char("s"), Plain("Down"), Plain("Enter"), Plain("Esc"), Char("x") }
RemapRows(k) ==
  (input_mode = ConfigMode /\ k.kind = "Down") => config_index < MaxRemapRow

NextRemap ==
  \/ Render
  \/ Tick
  \/ NoKey
  \/ \E k \in KeysRemap : RemapRows(k) /\ OnKey(k, TRUE, FALSE)

SpecRemap == InitSync /\ [][NextRemap]_vars

ActionSet == {Actions[i] : i \in 1..Len(Actions)}
BoundElsewhere(key, action) ==
  \E other \in ActionSet : other # action /\ keybindings[other] = key

\* C13: in Remapping(action), a key bound to a different action is rejected:
\* the bindings stay as they are, error_message holds an error and the mode
\* stays Remapping(action); any other key is bound to the action, nothing
\* else changes in the bindings and the mode returns to Config.  No two
\* actions ever share a key.
C13_RemapConflictRejected ==
  /\ \A a, b \in ActionSet : a # b => keybindings[a] # keybindings[b]
  /\ input_mode.tag = "Remapping" =>
       \A k \in KeysRemap :
         LET key == KeyEventToString(k)
             r == KeyNow(k)
         IN  (key # "" /\ k.kind # "Esc") =>
               IF BoundElsewhere(key, input_mode.arg)
               THEN /\ r.keybindings = keybindings
                    /\ r.error_message # NoError
                    /\ r.input_mode = input_mode
               ELSE /\ r.keybindings = [keybindings EXCEPT ![input_mode.arg] = key]
                    /\ r.input_mode = ConfigMode
\* "enter" was freed by binding the action enter to another key and then
\* bound to the action up; a further remap has just been rejected
C13_Witness ==
  /\ keybindings.enter # "enter" /\ keybindings.up = "enter"
  /\ input_mode.tag = "Remapping" /\ error_message # NoError

\* the settings cursor over the whole list; every key is bound by default,
\* so no remap succeeds
KeysConfig == { Char("s"), Char("j"), Char("k"), Plain("Enter"), Plain("Esc") }

NextConfig ==
  \/ Render
  \/ Tick
  \/ NoKey
  \/ \E k \in KeysConfig : OnKey(k, TRUE, FALSE)

SpecConfig == InitSync /\ [][NextConfig]_vars

\* C14: in Config mode the cursor is a row of the list, and Enter starts
\* the remap of the action of the highlighted row.
C14_EnterRemapsHighlighted ==
  input_mode = ConfigMode =>
    /\ config_index < Len(FlatRows(CategorizedActions))
    /\ KeyNow(Plain("Enter")).input_mode = Remapping(Highlighted(config_index))

(***************************************************************************)
(* The input modes and Esc.                                                *)
(***************************************************************************)
\* every mode is entered (End moves the cursor to an entry that has a
\* description to edit); every key is bound by default, so no remap succeeds
KeysModes ==
  { Char("e"), Char("s"), Key("F", "1", FALSE, FALSE, FALSE),
    Key("F", "3", FALSE, FALSE, FALSE), Plain("End"),
    Ctrl("n"), DeleteKey, Plain("Enter"), Plain("Esc") }

\* the user presses Enter in the settings only
EnterConfirms(k) ==
  k.kind = "Enter" => input_mode = ConfigMode

NextModes ==
  \/ Render
  \/ Tick
  \/ NoKey
  \/ \E k \in KeysModes : EnterConfirms(k) /\ OnKey(k, TRUE, FALSE)

SpecModes == InitSync /\ [][NextModes]_vars

\* what Esc does in the current state
EscNow == KeyNow(Plain("Esc"))
\* C15: Esc in Editing, Search, Config, Help and the two prompts moves the
\* mode to Normal, Esc in Remapping moves it to Config, and in each of these
\* modes Esc leaves the tree (descriptions, directories) and the bindings as
\* they are and hands nothing to delete_recursive.  A step enters Remapping
\* only from Config and leaves it only to Config.
C15_EscCancels ==
  [][ /\ input_mode.tag \in {"Editing", "Search", "Config", "Help", "Prompt"}
           => EscNow.input_mode = Normal
      /\ input_mode.tag = "Remapping" => EscNow.input_mode = ConfigMode
      /\ input_mode.tag # "Normal"
           => /\ EscNow.fs = fs
              /\ EscNow.keybindings = keybindings
              /\ EscNow.obs.deleted = {}
      /\ (input_mode.tag # "Remapping" /\ input_mode'.tag = "Remapping")
           => input_mode = ConfigMode
      /\ (input_mode.tag = "Remapping" /\ input_mode'.tag # "Remapping")
           => input_mode' = ConfigMode
    ]_vars
\* text was typed into the description editor and the editor was left with
\* Esc: the text is not in the tree
C15_Witness ==
  input_mode = Normal /\ edit_buffer # <<>> /\ fs = InitFs

(***************************************************************************)
(* The terminal pane: sessions, reader threads, the emulator.              *)
(***************************************************************************)
\* the toggle key, the focus key and the close key
KeysTerminal == { Ctrl("t"), Ctrl("b"), Ctrl("d") }
Sessions == 1..MaxPid

NextTerminal ==
  \/ Render
  \/ Tick
  \/ NoKey
  \/ \E k \in KeysTerminal, spawnOk \in BOOLEAN : OnKey(k, spawnOk, FALSE)
  \/ \E pid \in DOMAIN procs : ShellExit(pid)
  \/ \E sid \in Sessions : ReaderRead(sid)
  \/ \E sid \in Sessions : ReaderExit(sid)

SpecTerminal == InitSync /\ [][NextTerminal]_vars

\* C16: when the toggle key is read while the pane is closed and no session
\* is held, and openpty or the spawn of the shell fails, the process lives
\* on, error_message holds the failure, and the pane is closed, unfocused
\* and holds no PTY handle.
C16_SpawnFailureSurfaced ==
  (Running /\ pc = "poll" /\ input_mode = Normal /\ ~is_terminal_open /\ ~pty_pair) =>
    LET r == OnKeyF(St, Ctrl("t"), FALSE, FALSE)
    IN  /\ ~r.panicked
        /\ r.error_message # NoError
        /\ ~r.is_terminal_open /\ ~r.terminal_focused
        /\ ~r.pty_pair /\ ~r.pty_parser /\ ~r.pty_writer /\ ~r.pty_reader_rx

\* C17: while the pane is closed the session holds no PTY pair, no writer,
\* no emulator and no channel receiver.
C17_ClosedPaneHoldsNothing ==
  ~is_terminal_open =>
    ~pty_pair /\ ~pty_writer /\ ~pty_parser /\ ~pty_reader_rx

\* C19: the live reader threads are exactly the reader of the held session:
\* one while a session is held, none while none is.
C19_OneReaderPerSession ==
  out.live = IF pty_pair THEN {child} ELSE {}

\* C20: the chunks the held emulator has processed, followed by those
\* waiting in the channel, are a prefix of the chunks the reader thread of
\* the held session has read, in that order and each once; none of them was
\* read from another session.
C20_FedIsPrefixOfRead ==
  /\ pty_parser =>
       LET through == out.fed \o out.channel
       IN  /\ Len(through) <= Len(out.log[child])
           /\ through = SubSeq(out.log[child], 1, Len(through))
           /\ \A i \in 1..Len(through) : through[i] = <<child, i>>
  /\ ~pty_parser => out.fed = <<>>
\* the second session's emulator has processed both chunks of its shell
\* while the reader thread of the first, closed session was alive and had
\* read chunks of its own
C20_Witness ==
  /\ pty_parser /\ child = 2
  /\ out.fed = << <<2, 1>>, <<2, 2>> >>
  /\ 1 \in out.live /\ Len(out.log[1]) = MaxOut

(***************************************************************************)
(* The tick and the reader thread.                                         *)
(***************************************************************************)
\* a session is opened and closed while its shell prints
KeysDrain == { Ctrl("t"), Ctrl("d") }

NextDrain ==
  \/ Render
  \/ Tick
  \/ DrainStep
  \/ NoKey
  \/ \E k \in KeysDrain : OnKey(k, TRUE, FALSE)
  \/ \E pid \in DOMAIN procs : ShellExit(pid)
  \/ \E sid \in Sessions : ReaderRead(sid)
  \/ \E sid \in Sessions : ReaderExit(sid)

SpecDrain == InitSync /\ [][NextDrain]_vars

\* C21: the "Read from PTY" loop of a tick receives no more chunks than the
\* channel held when the loop began, so that the tick returns however long
\* the reader thread goes on sending.
C21_DrainBounded ==
  obs.drain.begun >= 0 => obs.drain.fed <= obs.drain.begun

(***************************************************************************)
(* Listings.                                                               *)
(***************************************************************************)
\* browsing while another program creates an entry "b": a directory, a
\* file, or an entry whose metadata cannot be read
KeysList == { Char("j"), Plain("Enter"), Plain("Backspace") }
NewPaths == { << <<"b">> >>, << NameA, <<"b">> >> }
NewKinds == { "dir", "file", "unreadable" }

NextList ==
  \/ Render
  \/ Tick
  \/ NoKey
  \/ \E k \in KeysList : OnKey(k, TRUE, FALSE)
  \/ \E p \in NewPaths, kind \in NewKinds : ExternalCreate(p, kind)

SpecList == InitSync /\ [][NextList]_vars

\* C22: while the current directory can be read, a refresh lists every
\* entry of it whose metadata can be read, whatever the other entries are.
C22_InaccessibleSkipped ==
  IsDir(fs, current_dir) =>
    \A p \in Children(fs, current_dir) :
      Readable(fs, p) =>
        \E i \in 1..Len(Refresh(St).all_entries) : Refresh(St).all_entries[i].path = p

\* the listing of dir, when it can be taken
Listing(dir) == ListDirectory(fs, dir).entries
KeysFilter ==
  { Key("F", "3", FALSE, FALSE, FALSE), Char("B"), Char("e"),
    Key("F", "2", FALSE, FALSE, FALSE), Plain("Backspace"), Plain("Esc"),
    Plain("End") }

NextFilter ==
  \/ Render
  \/ Tick
  \/ NoKey
  \/ \E k \in KeysFilter : OnKey(k, TRUE, FALSE)

SpecFilter == InitSync /\ [][NextFilter]_vars

\* e's name or description contains query, case set aside
EntryMatches(e, query) ==
  \/ \E i \in 0..(Len(e.name) - Len(query)) :
       \A n \in 1..Len(query) : LowerChar(e.name[i + n]) = LowerChar(query[n])
  \/ /\ e.description # NoDesc
     /\ \E i \in 0..(Len(e.description) - Len(query)) :
          \A n \in 1..Len(query) : LowerChar(e.description[i + n]) = LowerChar(query[n])
\* sub is the subsequence of the elements of all that match query
RECURSIVE IsMatchingSubsequence(_, _, _)
IsMatchingSubsequence(sub, all, query) ==
  IF all = <<>> THEN sub = <<>>
  ELSE IF EntryMatches(Head(all), query)
  THEN sub # <<>> /\ Head(sub) = Head(all)
       /\ IsMatchingSubsequence(Tail(sub), Tail(all), query)
  ELSE IsMatchingSubsequence(sub, Tail(all), query)
\* what apply_filter leaves for all_entries and query
Filtered(r, query) ==
  /\ query = <<>> => r.filtered_entries = r.all_entries
  /\ query # <<>> => IsMatchingSubsequence(r.filtered_entries, r.all_entries, query)
  /\ r.filtered_entries = <<>> => r.selected_index = 0
\* C24: apply_filter leaves in filtered_entries all of all_entries when the
\* query is empty, and otherwise the entries of all_entries, in their
\* order, whose name or description contains the query, case set aside;
\* when none does, filtered_entries is empty and selected_index is 0.  In
\* Search mode a character typed and a character removed change the query
\* and leave filtered_entries filtered by the new query.
C24_FilterExact ==
  /\ Filtered(ApplyFilter(St), search_query) /\ ApplyFilter(St).all_entries = all_entries
  /\ input_mode = Search =>
       /\ \A c \in {"B", "e"} :
            /\ KeyNow(Char(c)).search_query = Append(search_query, c)
            /\ Filtered(KeyNow(Char(c)), Append(search_query, c))
       /\ KeyNow(Plain("Backspace")).search_query = Pop(search_query)
       /\ Filtered(KeyNow(Plain("Backspace")), Pop(search_query))
\* the query "e" where the file B is described as "e": no name matches, the
\* filter shows B for its description
C24_Witness ==
  /\ input_mode = Search /\ search_query = <<"e">>
  /\ Len(filtered_entries) = 1 /\ filtered_entries[1].name = NameB
  /\ Len(all_entries) > 1

(***************************************************************************)
(* The deep search.                                                        *)
(***************************************************************************)
\* F3, a query of one character and Enter, in a tree where another program
\* has created an entry or described one
KeysSearch ==
  { Key("F", "3", FALSE, FALSE, FALSE), Char("b"), Char("e"), Plain("Enter"),
    Plain("Esc") }

NextSearch ==
  \/ Render
  \/ Tick
  \/ NoKey
  \/ \E k \in KeysSearch : OnKey(k, TRUE, FALSE)
  \/ \E p \in NewPaths, kind \in NewKinds : ExternalCreate(p, kind)
  \/ \E p \in DOMAIN fs : ExternalDescribe(p, <<"e">>)

SpecSearch == InitSync /\ [][NextSearch]_vars

Queries == { <<"b">>, <<"B">>, <<"e">>, <<"a", "b">> }
KeysMove == { Char("j"), Ctrl("x"), PasteKey, Plain("Enter"), Plain("Backspace") }
Described == { <<NameA, NameA>>, <<NameA, NameB>> }

NextMove ==
  \/ Render
  \/ Tick
  \/ NoKey
  \/ \E k \in KeysMove, crossDevice \in BOOLEAN : OnKey(k, TRUE, crossDevice)
  \/ \E p \in Described : ExternalDescribe(p, <<"e">>)

SpecMove == InitSync /\ [][NextMove]_vars

\* the destinations src is moved to: a new name in the root, or its own name
\* in another directory; none exists yet and none lies inside src
MoveTargets(src) ==
  { dst \in { << <<"b">> >> } \cup { Join(d, FileName(src)) : d \in Dirs } :
      /\ dst \notin DOMAIN fs /\ PathOk(dst)
      /\ IsDir(fs, Parent(dst)) /\ ~IsPrefix(src, dst) }
\* where the entry q of the tree src is after the move of src to dst
Moved(q, src, dst) == dst \o SubSeq(q, Len(src) + 1, Len(q))
\* C26: when the rename fails and move_entry succeeds all the same, the
\* source is gone and the destination is the tree the source was: the same
\* entries, each with the kind, the content and the description attribute
\* it had.
C26_MoveKeepsTree ==
  \A src \in DOMAIN fs \ {Root} :
    \A dst \in MoveTargets(src) :
      LET r == MoveEntry(fs, src, dst, TRUE)
      IN  r.ok =>
            /\ ~Exists(r.fs, src)
            /\ Subtree(r.fs, dst) = { Moved(q, src, dst) : q \in Subtree(fs, src) }
            /\ \A q \in Subtree(fs, src) : r.fs[Moved(q, src, dst)] = fs[q]

(***************************************************************************)
(* Enter in the browser.                                                   *)
(***************************************************************************)
\* entering directories and opening files, with entries selected and with
\* the hits of a search in the list
KeysEnter ==
  { Key("F", "3", FALSE, FALSE, FALSE), Char("a"), Plain("Enter"), Plain("Esc"),
    Char("j"), Char(" ") }

NextEnter ==
  \/ Render
  \/ Tick
  \/ NoKey
  \/ \E k \in KeysEnter : OnKey(k, TRUE, FALSE)

SpecEnter == InitSync /\ [][NextEnter]_vars

\* C27: in Normal mode with the browser focused, Enter on a directory that
\* can be entered makes it the current directory, clears the search query,
\* sets all_entries and filtered_entries to the listing of the new directory
\* and the cursor to 0; Enter on a file leaves the current directory, the
\* entries, the cursor, the selection and the mode as they are.
C27_EnterContract ==
  (input_mode = Normal /\ ~terminal_focused /\ HasCursorEntry(St)) =>
    LET e == CursorEntry(St)
        r == KeyNow(Plain("Enter"))
    IN  /\ (e.is_dir /\ IsDir(fs, e.path)) =>
             /\ r.current_dir = e.path
             /\ r.search_query = <<>>
             /\ r.all_entries = Listing(e.path)
             /\ r.filtered_entries = Listing(e.path)
             /\ r.selected_index = 0
        /\ ~e.is_dir =>
             /\ r.current_dir = current_dir
             /\ r.all_entries = all_entries
             /\ r.filtered_entries = filtered_entries
             /\ r.selected_index = selected_index
             /\ r.selected_paths = selected_paths
             /\ r.input_mode = input_mode
\* the list holds the hits of a search for "a", an entry is selected and
\* the cursor is on the hit /a/a, a directory that is not in the current one
C27_Witness ==
  /\ input_mode = Normal /\ ~terminal_focused /\ HasCursorEntry(St)
  /\ search_query # <<>> /\ selected_paths # {}
  /\ CursorEntry(St).path = <<NameA, NameA>>
  /\ current_dir = Root
  /\ KeyNow(Plain("Enter")).current_dir = <<NameA, NameA>>

(***************************************************************************)
(* Descriptions.                                                           *)
(***************************************************************************)
\* describing the entry under the cursor (e, a text, F2) and describing it
\* again, also after another program has stored bytes that are not UTF-8
KeysDescribe ==
  { Char("e"), Char("é"), Key("F", "2", FALSE, FALSE, FALSE), Plain("Backspace"),
    Plain("End"), Plain("Esc") }
NotUtf8 == <<"C3">>

NextDescribe ==
  \/ Render
  \/ Tick
  \/ NoKey
  \/ \E k \in KeysDescribe : OnKey(k, TRUE, FALSE)
  \/ ExternalDescribe(<<NameA>>, NotUtf8)

SpecDescribe == InitSync /\ [][NextDescribe]_vars

Texts == { <<>>, <<"e">>, <<"é">>, <<"e", "é">>, <<"é", "e">>, <<"\n", "B">> }
\* the description the listing of the parent of p shows for p in f
Shown(f, p) ==
  LET l == ListDirectory(f, Parent(p)).entries
      at == { i \in 1..Len(l) : l[i].path = p /\ ~Synthetic(l[i]) }
  IN  { l[i].description : i \in at }
\* C28: after set_description(path, text) succeeds, get_description(path)
\* returns text and the listing of the directory shows text as the
\* description of the entry; a second set_description replaces the text of
\* the first.
C28_DescriptionRoundTrip ==
  \A p \in DOMAIN fs \ {Root} : \A text \in Texts :
    LET r == SetDescription(fs, p, text)
    IN  r.ok =>
          /\ GetDescription(r.fs, p) = text
          /\ ListDirectory(r.fs, Parent(p)).ok => Shown(r.fs, p) = {text}
          /\ \A later \in Texts :
               LET r2 == SetDescription(r.fs, p, later)
               IN  r2.ok => GetDescription(r2.fs, p) = later
\* the browser has stored "é" as the description of a, which held bytes
\* that are not UTF-8 before, and lists a with it
C28_Witness ==
  /\ external > 0
  /\ fs[<<NameA>>].desc = AsBytes(<<"é">>)
  /\ GetDescription(fs, <<NameA>>) = <<"é">>
  /\ Shown(fs, <<NameA>>) = { <<"é">> }
  /\ input_mode = Normal
  /\ \E i \in 1..Len(filtered_entries) :
       filtered_entries[i].path = <<NameA>> /\ filtered_entries[i].description = <<"é">>

(***************************************************************************)
(* The shell id across sessions.                                           *)
(***************************************************************************)
\* C29: a spawn leaves the shell id 0, and the shell id that discovery
\* stores while a session is held, the one the shell -> GUI sync follows, is
\* the shell of the held session, never the shell of a session closed before.
C29_ShellIdOfHeldSession ==
  /\ (Running /\ pc = "poll" /\ input_mode = Normal /\ ~is_terminal_open /\ ~pty_pair) =>
       OnKeyF(St, Ctrl("t"), TRUE, FALSE).shell_id = 0
  /\ (pty_pair /\ shell_id # 0) => shell_id = child

\* C30: a tick that is a sync tick (its count a multiple of 5) and finds the
\* working directory of the known shell unreadable resets the shell id to 0
\* and does not navigate: the current directory stays, and last_synced_path
\* is what the GUI -> shell step of the tick left, unchanged when the user
\* had not navigated.  A sync tick with shell id 0 stores the shell that
\* find_shell_pid returns.  A tick that is not a sync tick leaves the shell
\* id and the current directory as they are.
C30_UnreadableShellForgotten ==
  (Running /\ pc = "tick") =>
    \A found \in FoundShells :
      LET r == TickF(St, found)
          sync == r.tick_count % SyncEvery = 0
      IN  /\ (sync /\ shell_id > 0 /\ ~ReadCwd(St, shell_id).ok) =>
               /\ r.shell_id = 0
               /\ r.current_dir = current_dir
               /\ r.last_synced_path = GuiToShell(St).last_synced_path
               /\ current_dir = last_synced_path => r.last_synced_path = last_synced_path
          /\ (sync /\ shell_id = 0 /\ found # 0) => r.shell_id = found
          /\ ~sync =>
               /\ r.shell_id = shell_id
               /\ r.current_dir = current_dir
\* the shell that discovery stored has ended and the user has navigated
\* since; the tick about to run is a sync tick
C30_Witness ==
  /\ Running /\ pc = "tick"
  /\ shell_id > 0 /\ ~ReadCwd(St, shell_id).ok
  /\ current_dir # last_synced_path
  /\ TickF(St, 0).tick_count % SyncEvery = 0
  /\ TickF(St, 0).shell_id = 0

(***************************************************************************)
(* find_shell_pid over process tables.                                     *)
(***************************************************************************)
Pids == 1..MaxProc
ProcNames == { <<"Z", "S", "H">>, <<"n", "u">>, <<"v", "i">>, <<"s", "h", "x">> }
Snapshots ==
  UNION { [D -> [ppid : 0..MaxProc, name : ProcNames]] : D \in SUBSET Pids }
Tables ==
  [snap : Snapshots, root : 0..MaxProc, readable : BOOLEAN, found : {-1}]
\* the orders in which a HashMap may hand out the pids
Orders ==
  { o \in [1..MaxProc -> Pids] : \A i, j \in 1..MaxProc : i # j => o[i] # o[j] }

\* a call of find_shell_pid
FindShell(order) ==
  /\ table.found = -1
  /\ Commit([St EXCEPT !.table.found = FindShellPid(table, order)])
  /\ UNCHANGED << main_rows, path_max, pc >>

NextFind == \E order \in Orders : FindShell(order)

InitFind == InitApp({MaxRows}, Tables)

SpecFind == InitFind /\ [][NextFind]_vars

\* the number of parent links from q up to root; 0 when q is not below root
RECURSIVE Climb(_, _, _, _)
Climb(snap, root, q, n) ==
  IF n > MaxProc \/ q \notin DOMAIN snap THEN 0
  ELSE IF snap[q].ppid = root THEN n
  ELSE Climb(snap, root, snap[q].ppid, n + 1)
DepthBelow(snap, root, q) == IF q = root THEN 0 ELSE Climb(snap, root, q, 1)
\* the shell pattern, as the specification words it
ShellPattern(name) ==
  LET n == ToLower(name)
  IN  \/ Len(n) >= 2 /\ n[Len(n) - 1] = "s" /\ n[Len(n)] = "h"
      \/ n = <<"f", "i", "s", "h">>
      \/ n = <<"n", "u">>
MatchingBelow(tb) ==
  { q \in DOMAIN tb.snap : DepthBelow(tb.snap, tb.root, q) > 0
                            /\ ShellPattern(tb.snap[q].name) }
\* C31: find_shell_pid returns; what it returns is a pid below the root,
\* not the root, whose name matches the shell pattern and that no matching
\* pid below the root is nearer to the root than; it returns None exactly
\* when no pid below the root matches or the process table cannot be read.
C31_FindsNearestShell ==
  table.found # -1 =>
    LET m == MatchingBelow(table)
    IN  /\ table.found = 0 <=> (m = {} \/ ~table.readable)
        /\ table.found # 0 =>
             /\ table.found \in m
             /\ table.found # table.root
             /\ \A q \in m : DepthBelow(table.snap, table.root, table.found)
                               <= DepthBelow(table.snap, table.root, q)
\* below the root are a shell and a process that is no shell, below which
\* is another shell, handed out first; the search returned the nearer one
C31_Witness ==
  /\ table.found = 3 /\ table.root = 0 /\ table.readable
  /\ DOMAIN table.snap = Pids
  /\ table.snap[1].ppid = 0 /\ ~ShellPattern(table.snap[1].name)
  /\ table.snap[2].ppid = 1 /\ table.snap[2].name = <<"Z", "S", "H">>
  /\ table.snap[3].ppid = 0 /\ table.snap[3].name = <<"n", "u">>

(***************************************************************************)
(* Keys typed into the terminal pane.                                      *)
(***************************************************************************)
\* keys of every class the pane forwards: a character, Ctrl plus a letter,
\* Enter, an arrow, the navigation keys and a function key
TypedKeys ==
  { Char("a"), Char("é"), Ctrl("c"), Plain("Enter"), Plain("Up"), Plain("Left"),
    Plain("Home"), Plain("End"), Plain("PageUp"), Plain("PageDown"),
    Plain("Delete"), Key("F", "5", FALSE, FALSE, FALSE) }
\* C32: while the terminal pane has the focus, every key other than the
\* toggle key, the focus-prefix key and Ctrl-D appends one chunk of bytes,
\* not empty, to the input of the PTY: the control byte for Ctrl plus a
\* letter, carriage return for Enter, the character itself for a character,
\* an escape sequence for the arrow, navigation and function keys.
C32_FocusedKeysWritten ==
  (input_mode = Normal /\ terminal_focused /\ pty_writer) =>
    \A k \in TypedKeys :
      LET r == KeyNow(k)
      IN  /\ Len(r.ptyIn) = Len(ptyIn) + 1
          /\ SubSeq(r.ptyIn, 1, Len(ptyIn)) = ptyIn
          /\ r.ptyIn[Len(r.ptyIn)] # <<>>
          /\ (k.kind = "Char" /\ ~k.ctrl) => r.ptyIn[Len(r.ptyIn)] = <<k.arg>>
          /\ k.kind = "Enter" => r.ptyIn[Len(r.ptyIn)] = <<"\r">>
          /\ k.kind \notin {"Char", "Enter"} => Head(r.ptyIn[Len(r.ptyIn)]) = "\\x1b"

(***************************************************************************)
(* The description editor while the listing changes.                       *)
(***************************************************************************)
\* opening the editor on an entry and saving, while another program removes
\* an entry and the periodic refresh runs
KeysEdit ==
  { Plain("End"), Char("e"), Key("F", "2", FALSE, FALSE, FALSE), Plain("Esc") }

NextEdit ==
  \/ Render
  \/ Tick
  \/ NoKey
  \/ \E k \in KeysEdit : OnKey(k, TRUE, FALSE)
  \/ ExternalRemove(<<NameA>>)

SpecEdit == InitSync /\ [][NextEdit]_vars

\* C33: in Editing mode the save key writes the edit buffer as the
\* description of the entry that was under the cursor when the editor was
\* opened, an entry other than "." and "..", and of no other entry, whatever
\* ticks have run since; it returns to Normal and refreshes the entries.
C33_SaveGoesToEditedEntry ==
  input_mode = Editing =>
    LET r == KeyNow(Key("F", "2", FALSE, FALSE, FALSE))
    IN  /\ \E p \in obs.captured :
             /\ Cardinality(obs.captured) = 1
             /\ r.fs = SetDescription(fs, p, edit_buffer).fs
        /\ r.input_mode = Normal
        /\ r.all_entries = ListDirectory(r.fs, r.current_dir).entries

(***************************************************************************)
(* The result of a deep search.                                            *)
(***************************************************************************)
\* C34: Enter in Search mode with a query returns to Normal and makes
\* filtered_entries the result of search_recursive from the root, with the
\* cursor at 0 and the searching flag cleared; Enter with an empty query
\* returns to Normal and searches nothing; and a tick leaves the result of
\* the deep search in filtered_entries.
C34_DeepSearchResultStays ==
  [][ /\ input_mode = Search =>
           LET r == KeyNow(Plain("Enter"))
           IN  /\ r.input_mode = Normal
               /\ search_query # <<>> =>
                    /\ r.filtered_entries = SearchRecursive(fs, Root, search_query)
                    /\ r.selected_index = 0
                    /\ ~r.is_searching
               /\ search_query = <<>> => r.filtered_entries = filtered_entries
      /\ ( /\ TickStep
           /\ input_mode = Normal /\ search_query # <<>>
           /\ filtered_entries = SearchRecursive(fs, Root, search_query) ) =>
           filtered_entries' = filtered_entries ]_vars

(***************************************************************************)
(* Ticks while no session is held.                                         *)
(***************************************************************************)
\* opening and closing the terminal pane and navigating the browser
KeysClosed == { Ctrl("t"), Ctrl("d"), Plain("Enter"), Plain("Backspace") }

NextClosed ==
  \/ Render
  \/ Tick
  \/ NoKey
  \/ \E k \in KeysClosed : OnKey(k, TRUE, FALSE)
  \/ ShellRead
  \/ \E pid \in DOMAIN procs : ShellExit(pid)

SpecClosed == InitSync /\ [][NextClosed]_vars

\* C35: while no PTY session is held, before the pane is first opened and
\* after a close, a tick leaves the current directory as it is, whatever
\* shell find_shell_pid returns.
C35_NoSyncWithoutSession ==
  (Running /\ pc = "tick" /\ ~pty_pair) =>
    \A found \in FoundShells : TickF(St, found).current_dir = current_dir

(***************************************************************************)
(* Remapped keys in Normal mode.                                           *)
(***************************************************************************)
\* what the action does: the branch of the Normal-mode chain that its
\* binding selects, reached by a key no branch knows by its code
ActionNow(action) ==
  BrowserKey(Begin(St), Plain("Tab"), keybindings[action], FALSE)
\* C36: once an action is remapped to a key, that key, read in Normal mode
\* with the browser focused, does what the action does and nothing else; the
\* key the quit action is remapped to ends the loop, and no other key does.
C36_RemappedKeyPerformsAction ==
  (input_mode = Normal /\ ~terminal_focused) =>
    \A k \in { Plain("Down"), Char("x") } : \A action \in ActionSet :
      ( /\ keybindings[action] = KeyEventToString(k)
        /\ keybindings[action] # DefaultKeybindings[action] ) =>
        IF action = "quit" THEN QuitMatch(k)
        ELSE ~QuitMatch(k) /\ KeyNow(k) = ActionNow(action)

(***************************************************************************)
(* The pane, the focus and the PTY handles.                                *)
(***************************************************************************)
\* the toggle key, the focus key, the close key, and the settings screen
KeysPane == { Ctrl("t"), Ctrl("b"), Ctrl("d"), Char("s"), Plain("Esc") }

NextPane ==
  \/ Render
  \/ Tick
  \/ NoKey
  \/ \E k \in KeysPane, spawnOk \in BOOLEAN : OnKey(k, spawnOk, FALSE)
  \/ ShellRead
  \/ \E pid \in DOMAIN procs : ShellExit(pid)

SpecPane == InitSync /\ [][NextPane]_vars

\* C37: in every state of the running process the pane has the focus only
\* while it is open and the mode is Normal, the pane is open only while a
\* PTY session is held, and the PTY pair, the emulator, the writer and the
\* receiver are all present or all absent.
C37_PaneInvariants ==
  ~panicked =>
    /\ terminal_focused => (is_terminal_open /\ input_mode = Normal)
    /\ is_terminal_open => pty_pair
    /\ pty_pair = pty_parser /\ pty_parser = pty_writer /\ pty_writer = pty_reader_rx
\* the pane is open on a held session without the focus while the settings
\* screen is shown, after a first session was closed
C37_Witness ==
  /\ ~panicked /\ is_terminal_open /\ ~terminal_focused /\ pty_pair
  /\ input_mode = ConfigMode
  /\ child = 2

(***************************************************************************)
(* copy_recursive into the tree it copies.                                 *)
(***************************************************************************)
\* the paths of up to n components over the names of the model
RECURSIVE PathsUpTo(_)
PathsUpTo(n) ==
  IF n = 0 THEN {Root}
  ELSE PathsUpTo(n - 1) \cup
         { Join(p, nm) : p \in PathsUpTo(n - 1), nm \in {NameA, NameB, <<"b">>} }
SameContent(f, q, g, at) ==
  Exists(g, at) /\ g[at].kind = f[q].kind /\ g[at].data = f[q].data
\* cutting and pasting on a filesystem that accepts paths one directory
\* deeper than the initial tree
InitDeep == InitEnv({MaxRows}, {NoTable}, {MaxDepth + 1})

NextDeep ==
  \/ Render
  \/ Tick
  \/ NoKey
  \/ \E k \in KeysMove : OnKey(k, TRUE, FALSE)

SpecDeep == InitDeep /\ [][NextDeep]_vars

\* C39: after move_entry(src, dst) has returned, with Ok or with an error,
\* the whole content src had is at src or is at dst: every entry of its
\* tree, with its kind and its data.
C39_MoveLosesNothing ==
  \A src \in DOMAIN fs \ {Root} : \A dst \in PathsUpTo(path_max) \ {Root} :
    \A crossDevice \in BOOLEAN :
      LET r == MoveEntry(fs, src, dst, crossDevice)
      IN  (crossDevice => src # dst) =>
            \/ \A q \in Subtree(fs, src) : SameContent(fs, q, r.fs, q)
            \/ \A q \in Subtree(fs, src) : SameContent(fs, q, r.fs, Moved(q, src, dst))

(***************************************************************************)
(* The quit key and the modes.                                             *)
(***************************************************************************)
\* the quit key's character typed in the browser, in the text-entry modes,
\* in the settings and in the focused terminal pane
KeysQuit ==
  { Char("q"), Char("e"), Char("s"), Key("F", "3", FALSE, FALSE, FALSE),
    Ctrl("n"), Ctrl("t"), Plain("Enter"), Plain("Esc") }

NextQuit ==
  \/ Render
  \/ Tick
  \/ NoKey
  \/ \E k \in KeysQuit : EnterConfirms(k) /\ OnKey(k, TRUE, FALSE)

SpecQuit == InitSync /\ [][NextQuit]_vars

\* C40: a step that ends the event loop starts in Normal mode with the
\* browser focused: in Search, Editing, the new-folder prompt and Remapping,
\* and while the terminal pane is focused, the quit key's character goes to
\* on_key and the loop goes on.
C40_QuitOnlyFromBrowser ==
  [][(pc # "done" /\ pc' = "done") => (input_mode = Normal /\ ~terminal_focused)]_vars

====
